---- MODULE Spec2Model ----
(***************************************************************************)
(* Model of the EI-Found community application: the Postgres schema with   *)
(* its constraints, row-level policies and counter triggers, the realtime  *)
(* channel, the feed view (Dashboard), the thread view (CommentsPage) and  *)
(* the signup path (LoginPage.handleSignup -> AuthContext.signup).         *)
(***************************************************************************)
EXTENDS Integers, Sequences, FiniteSets, TLC

\* ------------------------------------------------------------------ bounds
MaxTweets == 2
MaxComments == 2
MaxQueue == 2
MaxLikeOps == 2
MaxToggles == 3
MaxInFlight == 2
MaxSrvOps == 2
MaxSignups == 2
MaxNetFails == 1
MaxSends == 1
MaxSubmits == 2
MaxProfOps == 2
MaxUploads == 2
MaxObjects == 2
MaxPosts == 1
MaxDels == 1

Users == {"u1", "u2"}
TweetIds == 1..MaxTweets
CommentIds == 1..MaxComments
NoRow == [id |-> 0]

\* ------------------------------------------------------------------- state
VARIABLES
    tbl_tweets,      \* public.tweets: id -> row or NoRow
    tbl_likes,       \* public.likes: <<user_id, tweet_id>> -> number of rows
    tbl_comments,    \* public.comments: set of rows
    nextTweetId,     \* ids handed out so far (gen_random_uuid never repeats)
    nextCommentId,
    srvOps,          \* requests other sessions have made (bounded)
    netFails,        \* requests of the page that failed in the network (bounded)
    view,            \* the mounted page: "none", "feed" (Dashboard), "thread" (CommentsPage)
    tweetId,         \* useParams().tweetId of the thread view (0: no thread view)
    subscribed,      \* the view's realtime channel has joined
    channel,         \* postgres_changes events sent to the view, not yet handled
    tweets,          \* Dashboard: useState<Tweet[]>
    tweet,           \* CommentsPage: useState<Tweet | null>
    fetch,           \* fetchTweets / fetchTweetAndComments: position and data held
    inserts,         \* Dashboard INSERT handlers awaiting the profile fetch
    likeOps,         \* handleLike invocations: position and closure
    nLike,           \* handleLike invocations so far
    toasts,          \* toast() calls so far, by description
    email_allowlist, \* public.email_allowlist: the emails of its rows
    auth_users,      \* auth.users: the emails of the identities
    signupOps,       \* LoginPage.handleSignup invocations: position, form and outcome
    page,            \* the mounted form: "login" (LoginPage), "change" (ChangePasswordForm),
                     \* "reset" (ResetPasswordPage); "dashboard" after a reset
    formData,        \* the mounted form's useState formData
    isLoading,       \* the mounted form's useState isLoading
    pwOps,           \* handleChangePassword / handleResetPassword invocations
    comments,        \* CommentsPage: useState<Comment[]>
    newComment,      \* CommentsPage: the draft in the composer
    cmtOps,          \* CommentsPage comments INSERT handlers: position and data held
    sendOps,         \* handleSendComment invocations: position and outcome
    nSend,           \* handleSendComment invocations so far
    refresh,         \* the mounted view's setTimeout(fetch..., 500) timers not fired yet
    tbl_profiles,    \* public.profiles: set of rows
    user,            \* AuthContext: the id of the signed-in user ("": none)
    profilePage,     \* ProfilePage: useParams().userId, profileUser and profileData
    profOps,         \* updateProfile invocations: position, filter and payload
    uploadOps,       \* handleImageUpload invocations: position, file and outcome
    storage_objects, \* storage.objects: set of rows
    nextObjectId,    \* ids handed out so far
    postOps,         \* Dashboard.handleSendTweet invocations: position and outcome
    delOps,          \* Dashboard.handleDeleteTweet invocations: position, id and outcome
    session,         \* AuthProvider: useState<Session | null>, the id of its user ("": null)
    loading,         \* AuthProvider: useState(true)
    userData,        \* AuthContext: isAdmin, program, section and batch of user
    authSession,     \* supabase.auth: the id of the client's current session ("": none)
    getSession,      \* the effect's getSession().then callback: "pending" or "done"
    maps,            \* mapSupabaseUserToUser calls: position and the supabaseUser
    lastEvent,       \* history: the session argument of the listener's latest call
    pathname,        \* window.location.pathname
    lastRoute,       \* localStorage 'lastRoute' ("": not set)
    adminPage,       \* AdminPage: useState allowlist and newEmail
    budget,         \* how many toggles, other requests and failures this run may take
    chain            \* history: the current run of undisturbed successful toggles of one post

dbVars == <<tbl_tweets, tbl_likes, tbl_comments, nextTweetId, nextCommentId>>

rtVars == <<view, tweetId, subscribed, channel, budget>>

authVars == <<email_allowlist, auth_users, signupOps, tbl_profiles>>

profVars == <<user, profilePage, profOps, uploadOps, storage_objects, nextObjectId>>

formVars == <<page, formData, isLoading, pwOps>>

clientVars == <<tweets, tweet, fetch, inserts, likeOps, nLike, toasts, chain>>

threadVars == <<comments, newComment, cmtOps, sendOps, nSend, refresh>>

postVars == <<postOps, delOps>>

ctxVars == <<session, loading, userData, authSession, getSession, maps, lastEvent, pathname,
            lastRoute, adminPage>>

\* State the feed and the thread never touch, and the state the forms and the
\* profile page never touch.
sideVars == <<authVars, formVars, profVars, ctxVars>>

appVars == <<dbVars, srvOps, netFails, rtVars, clientVars, threadVars, postVars, ctxVars>>

\* State the AuthProvider, the routes and the admin page never touch.
restVars == <<dbVars, srvOps, netFails, rtVars, threadVars, postVars, tweets, tweet, fetch,
             inserts, likeOps, nLike, chain, authVars, formVars, profilePage, profOps,
             uploadOps, storage_objects, nextObjectId>>

vars == <<tbl_tweets, tbl_likes, tbl_comments, nextTweetId, nextCommentId, srvOps, netFails,
          view, tweetId, subscribed, channel,
          tweets, tweet, fetch, inserts, likeOps, nLike, toasts, budget, chain,
          email_allowlist, auth_users, signupOps, page, formData, isLoading, pwOps,
          comments, newComment, cmtOps, sendOps, nSend, refresh,
          tbl_profiles, user, profilePage, profOps, uploadOps, storage_objects, nextObjectId,
          postOps, delOps, session, loading, userData, authSession, getSession, maps,
          lastEvent, pathname, lastRoute, adminPage>>

\* ---------------------------------------------------------------- database
\* CREATE TABLE public.tweets: the row a tweets insert creates.
TweetRow(id, user_id) ==
    [id |-> id, user_id |-> user_id, content |-> id,
     likes_count |-> 0, comments_count |-> 0, created_at |-> id]

\* Number of rows of public.comments with the given tweet_id.
CommentRowsOf(tweet_id) ==
    Cardinality({c \in tbl_comments : c.tweet_id = tweet_id})

\* Number of rows of public.likes with the given tweet_id.
RECURSIVE SumLikes(_, _)
SumLikes(S, tweet_id) ==
    IF S = {} THEN 0
    ELSE LET u == CHOOSE x \in S : TRUE
         IN tbl_likes[<<u, tweet_id>>] + SumLikes(S \ {u}, tweet_id)

LikeRowsOf(tweet_id) == SumLikes(Users, tweet_id)

\* WITH CHECK (auth.uid() = user_id) / USING (auth.uid() = user_id)
\* (and policies that let every session through).
RlsOwner_any(uid, user_id) == TRUE

RlsOwner(uid, user_id) == uid = user_id

\* tweet_id UUID NOT NULL REFERENCES public.tweets(id)
FkTweet(tweet_id) == tweet_id \in TweetIds /\ tbl_tweets[tweet_id] # NoRow

\* UNIQUE(user_id, tweet_id) on public.likes (and the table without the constraint).
UniqueLikeFree(user_id, tweet_id) == TRUE

UniqueLike(user_id, tweet_id) == tbl_likes[<<user_id, tweet_id>>] = 0

\* "Users can update their own tweets": the rows of tweets an UPDATE run by
\* the session uid may change. The trigger functions below are not SECURITY
\* DEFINER, so their UPDATE of tweets runs as the session that wrote the like
\* or the comment and is filtered by this policy.
TweetsUpdatable(uid, tweet_id) ==
    /\ tweet_id \in TweetIds
    /\ tbl_tweets[tweet_id] # NoRow
    /\ RlsOwner(uid, tbl_tweets[tweet_id].user_id)

\* update_tweet_likes_count(): the AFTER INSERT OR DELETE row trigger on likes,
\* fired for the like rows a statement of the session uid wrote.
update_tweet_likes_count(uid, TG_OP, tweet_id, rows) ==
    IF ~TweetsUpdatable(uid, tweet_id) THEN tbl_tweets
    ELSE IF TG_OP = "INSERT"
         THEN [tbl_tweets EXCEPT ![tweet_id].likes_count = @ + rows]
         ELSE IF TG_OP = "DELETE"
              THEN [tbl_tweets EXCEPT ![tweet_id].likes_count = @ - rows]
              ELSE tbl_tweets

\* update_tweet_comments_count(): the row trigger on comments.
update_tweet_comments_count(uid, TG_OP, tweet_id, rows) ==
    IF ~TweetsUpdatable(uid, tweet_id) THEN tbl_tweets
    ELSE IF TG_OP = "INSERT"
         THEN [tbl_tweets EXCEPT ![tweet_id].comments_count = @ + rows]
         ELSE IF TG_OP = "DELETE"
              THEN [tbl_tweets EXCEPT ![tweet_id].comments_count = @ - rows]
              ELSE tbl_tweets

\* from('likes').insert({tweet_id, user_id}) by the session uid: the policy,
\* the foreign key and the unique constraint decide whether it is an error.
LikesInsertError(uid, user_id, tweet_id) ==
    \/ ~RlsOwner(uid, user_id)
    \/ ~FkTweet(tweet_id)
    \/ ~UniqueLike(user_id, tweet_id)

\* Rows from('likes').delete().eq(tweet_id).eq(user_id) removes for session uid.
LikesDeleteRows(uid, user_id, tweet_id) ==
    IF RlsOwner(uid, user_id) /\ tweet_id \in TweetIds
    THEN tbl_likes[<<user_id, tweet_id>>] ELSE 0

\* The database after a likes insert (tables unchanged when it is an error).
DbLikesInsert(uid, user_id, tweet_id) ==
    IF LikesInsertError(uid, user_id, tweet_id)
    THEN [error |-> TRUE, likes |-> tbl_likes, tweets |-> tbl_tweets]
    ELSE [error |-> FALSE,
          likes |-> [tbl_likes EXCEPT ![<<user_id, tweet_id>>] = @ + 1],
          tweets |-> update_tweet_likes_count(uid, "INSERT", tweet_id, 1)]

\* The database after a likes delete: never an error, also with no row matched.
DbLikesDelete(uid, user_id, tweet_id) ==
    LET n == LikesDeleteRows(uid, user_id, tweet_id)
    IN [error |-> FALSE,
        likes |-> IF n = 0 THEN tbl_likes
                  ELSE [tbl_likes EXCEPT ![<<user_id, tweet_id>>] = 0],
        tweets |-> IF n = 0 THEN tbl_tweets
                   ELSE update_tweet_likes_count(uid, "DELETE", tweet_id, n)]

\* ---------------------------------------------------------------- realtime
\* The filters of the view's channel: the feed listens to INSERT, UPDATE and
\* DELETE on tweets, the thread to INSERT on comments with tweet_id=eq.tweetId
\* and to UPDATE on tweets with id=eq.tweetId.
Subscribes(e) ==
    \/ view = "feed" /\ e.table = "tweets"
    \/ view = "thread" /\ e.table = "tweets" /\ e.event = "UPDATE" /\ e.row.id = tweetId
    \/ view = "thread" /\ e.table = "comments" /\ e.event = "INSERT"
          /\ e.row.tweet_id = tweetId

RECURSIVE SelectSeq2(_)
SelectSeq2(es) ==
    IF es = <<>> THEN <<>>
    ELSE IF Subscribes(Head(es)) THEN <<Head(es)>> \o SelectSeq2(Tail(es))
         ELSE SelectSeq2(Tail(es))

\* Events the channel delivers for the changes es.
Delivered(es) == IF subscribed THEN SelectSeq2(es) ELSE <<>>

Emit(es) ==
    /\ Len(channel) + Len(Delivered(es)) <= MaxQueue
    /\ channel' = channel \o Delivered(es)

\* The UPDATE event of a trigger's write to tweets (none when no row changed).
UpdateEvents(tw, tweet_id) ==
    IF tweet_id \in TweetIds /\ tw[tweet_id] # NoRow /\ tw[tweet_id] # tbl_tweets[tweet_id]
    THEN <<[event |-> "UPDATE", table |-> "tweets", row |-> tw[tweet_id]]>>
    ELSE <<>>

\* ------------------------------------------------- requests of any session
\* from('tweets').insert({user_id, content}) by user_id's session.
DbTweetInsert(user_id) ==
    /\ nextTweetId <= MaxTweets
    /\ RlsOwner(user_id, user_id)
    /\ tbl_tweets' = [tbl_tweets EXCEPT ![nextTweetId] = TweetRow(nextTweetId, user_id)]
    /\ nextTweetId' = nextTweetId + 1
    /\ Emit(<<[event |-> "INSERT", table |-> "tweets", row |-> TweetRow(nextTweetId, user_id)]>>)
    /\ UNCHANGED <<tbl_likes, tbl_comments, nextCommentId>>

\* The database after from('tweets').delete().eq('id', id) by the session
\* uid: the policy keeps other users' rows; ON DELETE CASCADE removes the
\* deleted tweet's likes and comments.
DbTweetsDelete(uid, id) ==
    IF tbl_tweets[id] # NoRow /\ RlsOwner(uid, tbl_tweets[id].user_id)
    THEN [tweets |-> [tbl_tweets EXCEPT ![id] = NoRow],
          likes |-> [p \in Users \X TweetIds |-> IF p[2] = id THEN 0 ELSE tbl_likes[p]],
          comments |-> {c \in tbl_comments : c.tweet_id # id}]
    ELSE [tweets |-> tbl_tweets, likes |-> tbl_likes, comments |-> tbl_comments]

\* The database after a tweets insert of a row with the given user_id by the
\* session uid (an error when the policy's check fails).
DbTweetsInsert(uid, user_id) ==
    IF RlsOwner(uid, user_id)
    THEN [error |-> FALSE,
          tweets |-> [tbl_tweets EXCEPT ![nextTweetId] = TweetRow(nextTweetId, user_id)]]
    ELSE [error |-> TRUE, tweets |-> tbl_tweets]

\* The database after from('tweets').update({content}).eq('id', id) by uid.
DbTweetsUpdate(uid, id, content) ==
    IF tbl_tweets[id] # NoRow /\ RlsOwner(uid, tbl_tweets[id].user_id)
    THEN [tbl_tweets EXCEPT ![id].content = content]
    ELSE tbl_tweets

\* The database after from('comments').update({content}).eq('id', id) by uid.
DbCommentsUpdate(uid, id, content) ==
    {IF c.id = id /\ RlsOwner(uid, c.user_id) THEN [c EXCEPT !.content = content] ELSE c :
        c \in tbl_comments}

\* The comments rows from('comments').delete().eq('id', id) by uid removes.
DbCommentsDeleteRows(uid, id) ==
    {c \in tbl_comments : c.id = id /\ RlsOwner(uid, c.user_id)}

\* The values a session writes into the content column of an existing row.
Contents == {0}

\* from('tweets').delete().eq('id', id) by uid, when it removes a row.
DbTweetDelete(uid, id) ==
    /\ DbTweetsDelete(uid, id).tweets # tbl_tweets
    /\ tbl_tweets' = DbTweetsDelete(uid, id).tweets
    /\ tbl_likes' = DbTweetsDelete(uid, id).likes
    /\ tbl_comments' = DbTweetsDelete(uid, id).comments
    /\ Emit(<<[event |-> "DELETE", table |-> "tweets", row |-> [id |-> id]]>>)
    /\ UNCHANGED <<nextTweetId, nextCommentId>>

\* from('likes').insert(...) by user_id's session, when it is no error.
DbLikeInsert(user_id, tweet_id) ==
    LET r == DbLikesInsert(user_id, user_id, tweet_id)
    IN /\ ~r.error
       /\ tbl_likes' = r.likes
       /\ tbl_tweets' = r.tweets
       /\ Emit(UpdateEvents(r.tweets, tweet_id))
       /\ UNCHANGED <<tbl_comments, nextTweetId, nextCommentId>>

\* from('likes').delete().eq(...) by user_id's session, when it removes a row.
DbLikeDelete(user_id, tweet_id) ==
    LET r == DbLikesDelete(user_id, user_id, tweet_id)
    IN /\ r.likes # tbl_likes
       /\ tbl_likes' = r.likes
       /\ tbl_tweets' = r.tweets
       /\ Emit(UpdateEvents(r.tweets, tweet_id))
       /\ UNCHANGED <<tbl_comments, nextTweetId, nextCommentId>>

\* The database after from('comments').insert({user_id, tweet_id, content}) by
\* the session uid (tables unchanged when the policy or the foreign key makes
\* it an error), and the changes it publishes: the row, then the trigger's.
DbCommentsInsert(uid, user_id, tweet_id) ==
    IF ~RlsOwner(uid, user_id) \/ ~FkTweet(tweet_id)
    THEN [error |-> TRUE, comments |-> tbl_comments, tweets |-> tbl_tweets,
          events |-> <<>>]
    ELSE LET row == [id |-> nextCommentId, user_id |-> user_id, tweet_id |-> tweet_id,
                     content |-> nextCommentId]
             tw == update_tweet_comments_count(uid, "INSERT", tweet_id, 1)
         IN [error |-> FALSE, comments |-> tbl_comments \cup {row}, tweets |-> tw,
             events |-> <<[event |-> "INSERT", table |-> "comments", row |-> row]>>
                           \o UpdateEvents(tw, tweet_id)]

\* from('comments').insert(...) by user_id's session, when it is no error.
DbCommentInsert(user_id, tweet_id) ==
    LET r == DbCommentsInsert(user_id, user_id, tweet_id)
    IN /\ nextCommentId <= MaxComments
       /\ ~r.error
       /\ tbl_comments' = r.comments
       /\ nextCommentId' = nextCommentId + 1
       /\ tbl_tweets' = r.tweets
       /\ Emit(r.events)
       /\ UNCHANGED <<tbl_likes, nextTweetId>>

\* The database after from('comments').delete().eq('id', id) by uid: only the
\* owner's rows go, and the trigger runs once for the row removed.
DbCommentsDelete(uid, id) ==
    LET rows == DbCommentsDeleteRows(uid, id)
    IN IF rows = {} THEN [comments |-> tbl_comments, tweets |-> tbl_tweets]
       ELSE [comments |-> tbl_comments \ rows,
             tweets |-> update_tweet_comments_count(uid, "DELETE",
                            (CHOOSE c \in rows : TRUE).tweet_id, 1)]

\* from('comments').delete().eq('id', c.id) by uid, when it removes a row.
DbCommentDelete(uid, c) ==
    LET r == DbCommentsDelete(uid, c.id)
    IN /\ c \in tbl_comments
       /\ r.comments # tbl_comments
       /\ tbl_comments' = r.comments
       /\ tbl_tweets' = r.tweets
       /\ Emit(UpdateEvents(r.tweets, c.tweet_id))
       /\ UNCHANGED <<tbl_likes, nextTweetId, nextCommentId>>

\* A tweets insert by the session uid of a row with any user_id.
DbTweetInsertAs(uid, user_id) ==
    LET r == DbTweetsInsert(uid, user_id)
    IN /\ nextTweetId <= MaxTweets
       /\ tbl_tweets' = r.tweets
       /\ nextTweetId' = IF r.error THEN nextTweetId ELSE nextTweetId + 1
       /\ Emit(IF r.error THEN <<>>
               ELSE <<[event |-> "INSERT", table |-> "tweets",
                       row |-> TweetRow(nextTweetId, user_id)]>>)
       /\ UNCHANGED <<tbl_likes, tbl_comments, nextCommentId>>

\* A likes insert by the session uid of a row with any user_id.
DbLikeInsertAs(uid, user_id, tweet_id) ==
    LET r == DbLikesInsert(uid, user_id, tweet_id)
    IN /\ tbl_likes' = r.likes
       /\ tbl_tweets' = r.tweets
       /\ Emit(UpdateEvents(r.tweets, tweet_id))
       /\ UNCHANGED <<tbl_comments, nextTweetId, nextCommentId>>

\* A likes delete by the session uid with .eq('user_id', user_id).
DbLikeDeleteAs(uid, user_id, tweet_id) ==
    LET r == DbLikesDelete(uid, user_id, tweet_id)
    IN /\ tbl_likes' = r.likes
       /\ tbl_tweets' = r.tweets
       /\ Emit(UpdateEvents(r.tweets, tweet_id))
       /\ UNCHANGED <<tbl_comments, nextTweetId, nextCommentId>>

\* A comments insert by the session uid of a row with any user_id.
DbCommentInsertAs(uid, user_id, tweet_id) ==
    LET r == DbCommentsInsert(uid, user_id, tweet_id)
    IN /\ nextCommentId <= MaxComments
       /\ tbl_comments' = r.comments
       /\ nextCommentId' = IF r.error THEN nextCommentId ELSE nextCommentId + 1
       /\ tbl_tweets' = r.tweets
       /\ Emit(r.events)
       /\ UNCHANGED <<tbl_likes, nextTweetId>>

\* from('tweets').update({content}).eq('id', id) by the session uid.
DbTweetUpdate(uid, id, content) ==
    /\ tbl_tweets' = DbTweetsUpdate(uid, id, content)
    /\ Emit(UpdateEvents(DbTweetsUpdate(uid, id, content), id))
    /\ UNCHANGED <<tbl_likes, tbl_comments, nextTweetId, nextCommentId>>

\* from('comments').update({content}).eq('id', id) by the session uid.
DbCommentUpdate(uid, id, content) ==
    /\ tbl_comments' = DbCommentsUpdate(uid, id, content)
    /\ Emit(<<>>)
    /\ UNCHANGED <<tbl_tweets, tbl_likes, nextTweetId, nextCommentId>>

\* Writes a session can send with any user_id, on any row.
DbRequestAs ==
    \/ \E uid \in Users, u \in Users : DbTweetInsertAs(uid, u)
    \/ \E uid \in Users, u \in Users, id \in TweetIds : DbLikeInsertAs(uid, u, id)
    \/ \E uid \in Users, u \in Users, id \in TweetIds : DbLikeDeleteAs(uid, u, id)
    \/ \E uid \in Users, u \in Users, id \in TweetIds : DbCommentInsertAs(uid, u, id)
    \/ \E uid \in Users, id \in TweetIds, c \in Contents : DbTweetUpdate(uid, id, c)
    \/ \E uid \in Users, id \in 1..MaxComments, c \in Contents : DbCommentUpdate(uid, id, c)

DbRequest ==
    \/ \E u \in Users : DbTweetInsert(u)
    \/ \E u \in Users, id \in TweetIds : DbTweetDelete(u, id)
    \/ \E u \in Users, id \in TweetIds : DbLikeInsert(u, id)
    \/ \E u \in Users, id \in TweetIds : DbLikeDelete(u, id)
    \/ \E u \in Users, id \in TweetIds : DbCommentInsert(u, id)
    \/ \E u \in Users, c \in tbl_comments : DbCommentDelete(u, c)

\* ------------------------------------------------------------------ client
Me == "u1"
NoTweet == [id |-> 0]
NoFetch == [pc |-> "idle"]
NoInsert == [pc |-> "none"]
NoLikeOp == [pc |-> "idle"]
NoChain == [len |-> 0]
NoSignup == [pc |-> "idle"]
NoPwOp == [pc |-> "idle"]
AuthPages == {"login", "change", "reset"}
EmptyForm == [email |-> "", password |-> <<>>, confirmPassword |-> <<>>]
NoCmtOp == [pc |-> "none"]
NoSendOp == [pc |-> "idle"]
NoProfOp == [pc |-> "idle"]
NoUpload == [pc |-> "idle"]
NoPostOp == [pc |-> "idle"]
NoDelOp == [pc |-> "idle"]
NoProfilePage ==
    [mounted |-> FALSE, userId |-> "", profileUser |-> NoRow,
     profileData |-> [name |-> "", avatar |-> 0]]
LikeSlots == 1..(IF MaxToggles > MaxLikeOps THEN MaxToggles ELSE MaxLikeOps)

\* The runs explored: many toggles among few other events; fewer toggles
\* among more requests of other sessions and failing requests; no toggle among
\* still more requests of other sessions; comments posted among requests of
\* other sessions and failing requests; views torn down among few events;
\* posts sent and deleted by the user among few events.
Budgets ==
    {[likes |-> MaxToggles, srv |-> 1, fails |-> 0, sends |-> 0, downs |-> FALSE,
      posts |-> 0, dels |-> 0],
     [likes |-> MaxLikeOps, srv |-> MaxSrvOps, fails |-> MaxNetFails, sends |-> 0,
      downs |-> FALSE, posts |-> 0, dels |-> 0],
     [likes |-> 0, srv |-> MaxSrvOps + 1, fails |-> 0, sends |-> 0, downs |-> FALSE,
      posts |-> 0, dels |-> 0],
     [likes |-> 0, srv |-> MaxSrvOps, fails |-> MaxNetFails, sends |-> MaxSends,
      downs |-> FALSE, posts |-> 0, dels |-> 0],
     [likes |-> 1, srv |-> 1, fails |-> 0, sends |-> MaxSends, downs |-> TRUE,
      posts |-> 0, dels |-> 0],
     [likes |-> 0, srv |-> 1, fails |-> MaxNetFails, sends |-> 0, downs |-> FALSE,
      posts |-> MaxPosts, dels |-> MaxDels]}
ToastKinds == {"Failed to like tweet", "Failed to unlike tweet",
               "Failed to send comment", "Comment posted successfully!",
               "Failed to send tweet", "Tweet posted successfully!",
               "Failed to delete tweet", "Tweet deleted successfully",
               "Email already exists", "Email added", "Email removed"}

\* The profiles row of a user as the selects return it (display data only).
ProfileOf(user_id) == user_id

\* The rows of tweets, .order('created_at', { ascending: false }).
RECURSIVE SelectTweetsDesc(_)
SelectTweetsDesc(n) ==
    IF n = 0 THEN <<>>
    ELSE IF tbl_tweets[n] # NoRow THEN <<tbl_tweets[n]>> \o SelectTweetsDesc(n - 1)
         ELSE SelectTweetsDesc(n - 1)

\* What the selects of comments return of a row: id, user_id, content, created_at.
CommentData(c) ==
    [id |-> c.id, user_id |-> c.user_id, content |-> c.content, created_at |-> c.id]

\* The comments of a tweet, .order('created_at', { ascending: true }).
RECURSIVE SelectCommentsAsc(_, _)
SelectCommentsAsc(tweet_id, n) ==
    IF n = 0 THEN <<>>
    ELSE LET rows == {c \in tbl_comments : c.id = n /\ c.tweet_id = tweet_id}
         IN SelectCommentsAsc(tweet_id, n - 1) \o
            (IF rows = {} THEN <<>> ELSE <<CommentData(CHOOSE c \in rows : TRUE)>>)

\* commentWithProfile / commentsWithProfiles: {...comment, profiles: profile || null}
CommentWithProfile(data, profileError) ==
    [id |-> data.id, user_id |-> data.user_id, content |-> data.content,
     created_at |-> data.created_at,
     profiles |-> IF profileError THEN "null" ELSE ProfileOf(data.user_id)]

CommentsWithProfiles(commentsData, profilesError) ==
    [i \in 1..Len(commentsData) |-> CommentWithProfile(commentsData[i], profilesError)]

\* Comments INSERT handler: setComments(prev => [...prev, commentWithProfile])
\* (and a handler that sets the list to the new comment alone).
MergeComment_replace(prev, data, profileError) ==
    <<CommentWithProfile(data, profileError)>>

MergeComment(prev, data, profileError) ==
    prev \o <<CommentWithProfile(data, profileError)>>

\* Comments INSERT handler: prev ? {...prev, comments_count + 1} : null
BumpCommentsCount(prev) ==
    IF prev # NoTweet THEN [prev EXCEPT !.comments_count = @ + 1] ELSE NoTweet

\* Occurrences of the id in a list of tweets.
Count(list, id) == Cardinality({i \in 1..Len(list) : list[i].id = id})

\* tweets.find(t => t.id === tweetId)
Find(list, id) ==
    IF Count(list, id) = 0 THEN NoTweet
    ELSE list[CHOOSE i \in 1..Len(list) :
                 /\ list[i].id = id
                 /\ \A j \in 1..(i - 1) : list[j].id # id]

\* fetchTweets: tweetsData combined with the profiles map and the liked ids.
TweetsWithProfiles(tweetsData, profilesError, likesError) ==
    [i \in 1..Len(tweetsData) |->
        [id |-> tweetsData[i].id,
         user_id |-> tweetsData[i].user_id,
         content |-> tweetsData[i].content,
         likes_count |-> tweetsData[i].likes_count,
         comments_count |-> tweetsData[i].comments_count,
         created_at |-> tweetsData[i].created_at,
         profiles |-> IF profilesError THEN "null" ELSE ProfileOf(tweetsData[i].user_id),
         user_liked |-> ~likesError /\ tbl_likes[<<Me, tweetsData[i].id>>] > 0]]

\* Dashboard INSERT handler: newTweetWithProfile, then [new, ...prev].
NewTweetWithProfile(new, profileError) ==
    [id |-> new.id, user_id |-> new.user_id, content |-> new.content,
     likes_count |-> new.likes_count, comments_count |-> new.comments_count,
     created_at |-> new.created_at,
     profiles |-> IF profileError THEN "null" ELSE ProfileOf(new.user_id),
     user_liked |-> FALSE]

MergeInsert(prev, new, profileError) ==
    <<NewTweetWithProfile(new, profileError)>> \o prev

\* Dashboard UPDATE handler: prev.map(...) replacing the two counters.
MergeUpdate_replace(prev, new) ==
    [i \in 1..Len(prev) |->
        IF prev[i].id = new.id
        THEN [prev[i] EXCEPT !.likes_count = new.likes_count,
                             !.comments_count = new.comments_count,
                             !.user_liked = FALSE]
        ELSE prev[i]]

MergeUpdate(prev, new) ==
    [i \in 1..Len(prev) |->
        IF prev[i].id = new.id
        THEN [prev[i] EXCEPT !.likes_count = new.likes_count,
                             !.comments_count = new.comments_count]
        ELSE prev[i]]

\* Dashboard DELETE handler: prev.filter(tweet => tweet.id !== payload.old.id)
\* (and the filter with the comparison the other way round).
RECURSIVE MergeDelete_keep(_, _)
MergeDelete_keep(prev, id) ==
    IF prev = <<>> THEN <<>>
    ELSE IF Head(prev).id # id THEN MergeDelete_keep(Tail(prev), id)
         ELSE <<Head(prev)>> \o MergeDelete_keep(Tail(prev), id)

RECURSIVE MergeDelete(_, _)
MergeDelete(prev, id) ==
    IF prev = <<>> THEN <<>>
    ELSE IF Head(prev).id = id THEN MergeDelete(Tail(prev), id)
         ELSE <<Head(prev)>> \o MergeDelete(Tail(prev), id)

\* CommentsPage UPDATE handler: prev ? {...prev, counters} : null
MergeUpdateThread(prev, new) ==
    IF prev # NoTweet
    THEN [prev EXCEPT !.likes_count = new.likes_count,
                      !.comments_count = new.comments_count]
    ELSE NoTweet

\* handleLike: newLikesCount and the optimistic setTweets / setTweet.
NewLikesCount_inc(isLiked, likes_count) == likes_count + 1

NewLikesCount(isLiked, likes_count) ==
    IF isLiked THEN likes_count - 1 ELSE likes_count + 1

OptimisticLike(prev, id, isLiked, likes_count) ==
    [i \in 1..Len(prev) |->
        IF prev[i].id = id
        THEN [prev[i] EXCEPT !.likes_count = NewLikesCount(isLiked, likes_count),
                             !.user_liked = ~isLiked]
        ELSE prev[i]]

OptimisticLikeThread(prev, isLiked, likes_count) ==
    IF prev # NoTweet
    THEN [prev EXCEPT !.likes_count = NewLikesCount(isLiked, likes_count),
                      !.user_liked = ~isLiked]
    ELSE NoTweet

\* handleLike: the revert of the failure branch (and a revert that undoes
\* the step on the current counter instead of restoring the captured one).
RevertLike_undo(prev, id, isLiked, likes_count) ==
    [i \in 1..Len(prev) |->
        IF prev[i].id = id
        THEN [prev[i] EXCEPT !.likes_count = NewLikesCount(~isLiked, @),
                             !.user_liked = isLiked]
        ELSE prev[i]]

RevertLike_all(prev, id, isLiked, likes_count) ==
    [i \in 1..Len(prev) |->
        [prev[i] EXCEPT !.likes_count = likes_count, !.user_liked = isLiked]]

RevertLike(prev, id, isLiked, likes_count) ==
    [i \in 1..Len(prev) |->
        IF prev[i].id = id
        THEN [prev[i] EXCEPT !.likes_count = likes_count, !.user_liked = isLiked]
        ELSE prev[i]]

RevertLikeThread(prev, isLiked, likes_count) ==
    IF prev # NoTweet
    THEN [prev EXCEPT !.likes_count = likes_count, !.user_liked = isLiked]
    ELSE NoTweet

\* handleLike: the one remote write, chosen by isLiked.
LikeWrite(isLiked, id) ==
    [op |-> IF isLiked THEN "delete" ELSE "insert", user_id |-> Me, tweet_id |-> id]

\* handleLike after its await: the invocation ends, with or without error
\* (and a handler that issues the write again after an error).
Settled_retry(op, error) ==
    IF error THEN [op EXCEPT !.pc = "await", !.writes = @ + 1]
    ELSE [pc |-> "done", error |-> error, writes |-> op.writes]

Settled(op, error) ==
    [pc |-> "done", error |-> error, writes |-> op.writes]

\* toast({ description }) of the failure branch.
LikeToast(isLiked) ==
    IF isLiked THEN "Failed to unlike tweet" ELSE "Failed to like tweet"


InitDb ==
    /\ tbl_tweets = [id \in TweetIds |-> NoRow]
    /\ tbl_likes = [p \in Users \X TweetIds |-> 0]
    /\ tbl_comments = {}
    /\ nextTweetId = 1
    /\ nextCommentId = 1
    /\ srvOps = 0
    /\ netFails = 0

InitClient ==
    /\ view = "none"
    /\ tweetId = 0
    /\ subscribed = FALSE
    /\ channel = <<>>
    /\ tweets = <<>>
    /\ tweet = NoTweet
    /\ fetch = NoFetch
    /\ inserts = [id \in TweetIds |-> NoInsert]
    /\ likeOps = [m \in LikeSlots |-> NoLikeOp]
    /\ nLike = 0
    /\ toasts = [k \in ToastKinds |-> 0]
    /\ chain = NoChain
    /\ budget \in Budgets
    /\ comments = <<>>
    /\ newComment = ""
    /\ cmtOps = [id \in CommentIds |-> NoCmtOp]
    /\ sendOps = [k \in 1..MaxSends |-> NoSendOp]
    /\ nSend = 0
    /\ refresh = 0
    /\ postOps = [k \in 1..MaxPosts |-> NoPostOp]
    /\ delOps = [k \in 1..MaxDels |-> NoDelOp]

\* One email on the allowlist, no identity, no signup begun.
InitAuth ==
    /\ email_allowlist = {"a@x"}
    /\ auth_users = {}
    /\ signupOps = [k \in 1..MaxSignups |-> NoSignup]
    /\ tbl_profiles = {}

\* A form as it mounts.
InitForm ==
    /\ formData = EmptyForm
    /\ isLoading = FALSE
    /\ pwOps = [k \in 1..MaxSubmits |-> NoPwOp]

\* Nobody signed in, no profile page opened, an empty avatars bucket.
InitProfile ==
    /\ user = ""
    /\ profilePage = NoProfilePage
    /\ profOps = [k \in 1..MaxProfOps |-> NoProfOp]
    /\ uploadOps = [k \in 1..MaxUploads |-> NoUpload]
    /\ storage_objects = {}
    /\ nextObjectId = 1

\* mapSupabaseUserToUser calls that may be pending at once, and the
\* submissions and removals made on the admin page.
MaxMaps == 2
MaxAdminOps == 2

\* The fields of the context's user the routes and the admin page read, when
\* there is no user.
NoData == [isAdmin |-> FALSE, program |-> "undefined", section |-> "undefined",
           batch |-> "undefined"]

NoMap == [pc |-> "idle"]

\* AdminPage's mock allowlist.
INITIAL_ALLOWLIST ==
    <<"admin@example.com", "user1@example.com", "user2@example.com", "test@example.com">>

NoAdminPage == [allowlist |-> INITIAL_ALLOWLIST, newEmail |-> ""]

\* The AuthProvider as it mounts on path p while the client holds session s:
\* no user, no session, loading, getSession() called.
InitCtx(s, p) ==
    /\ session = ""
    /\ loading = TRUE
    /\ userData = NoData
    /\ authSession = s
    /\ getSession = "pending"
    /\ maps = [k \in 1..MaxMaps |-> NoMap]
    /\ lastEvent = "none"
    /\ pathname = p
    /\ lastRoute = ""
    /\ adminPage = NoAdminPage

InitPages == InitDb /\ InitClient /\ InitAuth /\ InitForm /\ InitProfile

Init == InitPages /\ InitCtx("", "/") /\ page = "login"

\* One of the three forms is mounted.
InitSignup == InitPages /\ InitCtx("", "/") /\ page \in AuthPages

\* The database alone: requests of any sessions, no page mounted.
ServerRequest == (DbRequest \/ DbRequestAs) /\ UNCHANGED <<sideVars, postVars, threadVars, srvOps, netFails, rtVars, clientVars>>

SpecServer == Init /\ [][ServerRequest]_vars

\* Requests of other sessions while a page of Me may be mounted.
OtherRequest ==
    /\ srvOps < budget.srv
    /\ srvOps' = srvOps + 1
    /\ DbRequest
    /\ UNCHANGED <<sideVars, postVars, threadVars, netFails, view, tweetId, subscribed, budget, clientVars>>

\* n more requests of the page fail in the network.
Failures(n) ==
    /\ netFails + n <= budget.fails
    /\ netFails' = netFails + n

\* ------------------------------------------------------- mounting the views
\* Dashboard's effect: fetchData() starts fetchTweets, then .subscribe().
MountDashboard ==
    /\ view = "none"
    /\ view' = "feed"
    /\ fetch' = [pc |-> "tweets"]
    /\ UNCHANGED <<sideVars, postVars, threadVars, dbVars, srvOps, netFails, tweetId, subscribed, channel, budget,
                   tweets, tweet, inserts, likeOps, nLike, toasts>>
    /\ UNCHANGED chain

\* CommentsPage's effect: fetchTweetAndComments(), then .subscribe().
MountCommentsPage(id) ==
    /\ view = "none"
    /\ id < nextTweetId
    /\ view' = "thread"
    /\ tweetId' = id
    /\ fetch' = [pc |-> "tweet"]
    /\ UNCHANGED <<sideVars, postVars, threadVars, dbVars, srvOps, netFails, subscribed, channel, budget,
                   tweets, tweet, inserts, likeOps, nLike, toasts>>
    /\ UNCHANGED chain

\* The channel joins: from now on the server sends it the matching changes.
ChannelJoined ==
    /\ view # "none"
    /\ ~subscribed
    /\ subscribed' = TRUE
    /\ UNCHANGED <<sideVars, postVars, threadVars, dbVars, srvOps, netFails, view, tweetId, channel, budget, clientVars>>

\* ---------------------------------------------------------------- teardown
\* A handler of a subscription that was removed while the handler awaited.
Old(op) == "old" \in DOMAIN op

\* An invocation whose component was unmounted while it awaited.
Gone(op) == "gone" \in DOMAIN op

\* The effect's cleanup, supabase.removeChannel(channel): the channel is gone
\* with what was sent to it; the handlers that await go on.
RemoveChannel ==
    /\ subscribed' = FALSE
    /\ channel' = <<>>
    /\ inserts' = [id \in TweetIds |->
          IF inserts[id].pc = "profile"
          THEN [pc |-> "profile", new |-> inserts[id].new, old |-> TRUE]
          ELSE inserts[id]]
    /\ cmtOps' = [id \in CommentIds |->
          IF cmtOps[id].pc = "comment" THEN [pc |-> "comment", old |-> TRUE]
          ELSE IF cmtOps[id].pc = "profile"
               THEN [pc |-> "profile", newCommentData |-> cmtOps[id].newCommentData,
                     old |-> TRUE]
               ELSE cmtOps[id]]

\* The user object of useAuth() changes (AuthContext sets a new object on
\* every auth state change and profile update) while the view stays mounted
\* and its fetch is over: the effect's cleanup runs, then the effect again.
EffectRerun ==
    /\ budget.downs
    /\ view # "none"
    /\ fetch.pc = "done"
    /\ RemoveChannel
    /\ fetch' = [pc |-> IF view = "feed" THEN "tweets" ELSE "tweet"]
    /\ UNCHANGED <<sideVars, postVars, comments, newComment, sendOps, nSend, refresh, dbVars, srvOps,
                   netFails, view, tweetId, budget, tweets, tweet, likeOps, nLike, toasts,
                   chain>>

\* The user leaves the page: the cleanup runs and the component is unmounted.
\* Its state is gone, and so is what its pending fetches, handlers and timers
\* would set; the writes it has sent go on.
Unmount ==
    /\ budget.downs
    /\ view # "none"
    /\ view' = "none"
    /\ tweetId' = 0
    /\ subscribed' = FALSE
    /\ channel' = <<>>
    /\ tweets' = <<>>
    /\ tweet' = NoTweet
    /\ comments' = <<>>
    /\ newComment' = ""
    /\ fetch' = NoFetch
    /\ refresh' = 0
    /\ chain' = NoChain
    /\ inserts' = [id \in TweetIds |->
          IF inserts[id].pc = "profile" THEN [pc |-> "done", profileError |-> FALSE]
          ELSE inserts[id]]
    /\ cmtOps' = [id \in CommentIds |->
          IF cmtOps[id].pc \in {"comment", "profile"}
          THEN [pc |-> "done", merged |-> FALSE, profileError |-> FALSE]
          ELSE cmtOps[id]]
    /\ likeOps' = [m \in LikeSlots |->
          IF likeOps[m].pc \in {"await", "resp"}
          THEN [pc |-> likeOps[m].pc, tweetId |-> likeOps[m].tweetId,
                isLiked |-> likeOps[m].isLiked, likes_count |-> likeOps[m].likes_count,
                write |-> likeOps[m].write, writes |-> likeOps[m].writes,
                error |-> likeOps[m].error, gone |-> TRUE]
          ELSE likeOps[m]]
    /\ sendOps' = [k \in 1..MaxSends |->
          IF sendOps[k].pc \in {"await", "resp"}
          THEN [pc |-> sendOps[k].pc, tweet_id |-> sendOps[k].tweet_id,
                error |-> sendOps[k].error, gone |-> TRUE]
          ELSE sendOps[k]]
    /\ postOps' = [k \in 1..MaxPosts |->
          IF postOps[k].pc \in {"await", "resp"}
          THEN [pc |-> postOps[k].pc, error |-> postOps[k].error, gone |-> TRUE]
          ELSE postOps[k]]
    /\ delOps' = [k \in 1..MaxDels |->
          IF delOps[k].pc \in {"await", "resp"}
          THEN [pc |-> delOps[k].pc, tweetId |-> delOps[k].tweetId,
                error |-> delOps[k].error, gone |-> TRUE]
          ELSE delOps[k]]
    /\ UNCHANGED <<sideVars, nSend, dbVars, srvOps, netFails, budget, nLike, toasts>>

\* ------------------------------------------------------------- fetchTweets
\* The select of tweets runs; on tweetsError the function returns.
FetchTweetsSelect(tweetsError) ==
    /\ view = "feed"
    /\ fetch.pc = "tweets"
    /\ fetch' = IF tweetsError THEN [pc |-> "done"]
                ELSE [pc |-> "likes", tweetsData |-> SelectTweetsDesc(MaxTweets)]
    /\ Failures(IF tweetsError THEN 1 ELSE 0)
    /\ UNCHANGED <<sideVars, postVars, threadVars, dbVars, srvOps, rtVars, tweets, tweet, inserts, likeOps, nLike, toasts>>
    /\ UNCHANGED chain

\* The selects of profiles and of the user's likes run (Promise.all).
FetchProfilesLikes(profilesError, likesError) ==
    /\ view = "feed"
    /\ fetch.pc = "likes"
    /\ fetch' = [pc |-> "set",
                 data |-> TweetsWithProfiles(fetch.tweetsData, profilesError, likesError)]
    /\ Failures((IF profilesError THEN 1 ELSE 0) + (IF likesError THEN 1 ELSE 0))
    /\ UNCHANGED <<sideVars, postVars, threadVars, dbVars, srvOps, rtVars, tweets, tweet, inserts, likeOps, nLike, toasts>>
    /\ UNCHANGED chain

\* setTweets(tweetsWithProfiles)
FetchSetTweets ==
    /\ view = "feed"
    /\ fetch.pc = "set"
    /\ tweets' = fetch.data
    /\ fetch' = [pc |-> "done"]
    /\ UNCHANGED <<sideVars, postVars, threadVars, dbVars, srvOps, netFails, rtVars, tweet, inserts, likeOps, nLike, toasts>>
    /\ chain' = NoChain

\* --------------------------------------------------- fetchTweetAndComments
\* The select of the tweet .single(): an error (also: no row) ends the fetch.
ThreadFetchTweet(tweetError) ==
    /\ view = "thread"
    /\ fetch.pc = "tweet"
    /\ fetch' = IF tweetError \/ tbl_tweets[tweetId] = NoRow THEN [pc |-> "done"]
                ELSE [pc |-> "like", tweetData |-> tbl_tweets[tweetId]]
    /\ Failures(IF tweetError THEN 1 ELSE 0)
    /\ UNCHANGED <<sideVars, postVars, threadVars, dbVars, srvOps, rtVars, tweets, tweet, inserts, likeOps, nLike, toasts>>
    /\ UNCHANGED chain

\* The selects of the author's profile and of the user's like run.
ThreadFetchProfileLike(profileError, likeError) ==
    /\ view = "thread"
    /\ fetch.pc = "like"
    /\ fetch' = [pc |-> "setTweet",
                 data |-> TweetsWithProfiles(<<fetch.tweetData>>, profileError, likeError)[1]]
    /\ Failures((IF profileError THEN 1 ELSE 0) + (IF likeError THEN 1 ELSE 0))
    /\ UNCHANGED <<sideVars, postVars, threadVars, dbVars, srvOps, rtVars, tweets, tweet, inserts, likeOps, nLike, toasts>>
    /\ UNCHANGED chain

\* setTweet({...tweetData, profiles, user_liked})
ThreadSetTweet ==
    /\ view = "thread"
    /\ fetch.pc = "setTweet"
    /\ tweet' = fetch.data
    /\ fetch' = [pc |-> "comments"]
    /\ UNCHANGED <<sideVars, postVars, threadVars, dbVars, srvOps, netFails, rtVars, tweets, inserts, likeOps, nLike, toasts>>
    /\ chain' = NoChain

\* The select of the tweet's comments runs; on commentsError the function returns.
ThreadFetchComments(commentsError) ==
    /\ view = "thread"
    /\ fetch.pc = "comments"
    /\ fetch' = IF commentsError THEN [pc |-> "done"]
                ELSE [pc |-> "setComments",
                      commentsData |-> SelectCommentsAsc(tweetId, MaxComments)]
    /\ Failures(IF commentsError THEN 1 ELSE 0)
    /\ UNCHANGED <<sideVars, postVars, threadVars, dbVars, srvOps, rtVars, tweets, tweet, inserts, likeOps,
                   nLike, toasts, chain>>

\* The select of the authors' profiles returns; setComments(commentsWithProfiles).
ThreadSetComments(profilesError) ==
    /\ view = "thread"
    /\ fetch.pc = "setComments"
    /\ comments' = CommentsWithProfiles(fetch.commentsData, profilesError)
    /\ fetch' = [pc |-> "done"]
    /\ Failures(IF profilesError THEN 1 ELSE 0)
    /\ UNCHANGED <<sideVars, postVars, newComment, cmtOps, sendOps, nSend, refresh, dbVars, srvOps,
                   rtVars, tweets, tweet, inserts, likeOps, nLike, toasts, chain>>

\* -------------------------------------------------------- realtime handlers
\* Dashboard INSERT handler up to its await of the profile select.
OnTweetInsert ==
    /\ view = "feed"
    /\ channel # <<>>
    /\ Head(channel).event = "INSERT"
    /\ channel' = Tail(channel)
    /\ inserts' = [inserts EXCEPT ![Head(channel).row.id] =
                      [pc |-> "profile", new |-> Head(channel).row]]
    /\ UNCHANGED <<sideVars, postVars, threadVars, dbVars, srvOps, netFails, view, tweetId, subscribed, budget,
                   tweets, tweet, fetch, likeOps, nLike, toasts>>
    /\ UNCHANGED chain

\* Dashboard INSERT handler after the await: the post is prepended.
InsertProfileFetched(id, profileError) ==
    /\ view = "feed"
    /\ inserts[id].pc = "profile"
    /\ tweets' = MergeInsert(tweets, inserts[id].new, profileError)
    /\ inserts' = [inserts EXCEPT ![id] = [pc |-> "done", profileError |-> profileError]]
    /\ Failures(IF profileError THEN 1 ELSE 0)
    /\ UNCHANGED <<sideVars, postVars, threadVars, dbVars, srvOps, rtVars, tweet, fetch, likeOps, nLike, toasts>>
    /\ chain' = NoChain

\* Dashboard UPDATE handler.
OnTweetUpdate ==
    /\ view = "feed"
    /\ channel # <<>>
    /\ Head(channel).event = "UPDATE"
    /\ channel' = Tail(channel)
    /\ tweets' = MergeUpdate(tweets, Head(channel).row)
    /\ UNCHANGED <<sideVars, postVars, threadVars, dbVars, srvOps, netFails, view, tweetId, subscribed, budget,
                   tweet, fetch, inserts, likeOps, nLike, toasts>>
    /\ chain' = NoChain

\* Dashboard DELETE handler.
OnTweetDelete ==
    /\ view = "feed"
    /\ channel # <<>>
    /\ Head(channel).event = "DELETE"
    /\ channel' = Tail(channel)
    /\ tweets' = MergeDelete(tweets, Head(channel).row.id)
    /\ UNCHANGED <<sideVars, postVars, threadVars, dbVars, srvOps, netFails, view, tweetId, subscribed, budget,
                   tweet, fetch, inserts, likeOps, nLike, toasts>>
    /\ chain' = NoChain

\* CommentsPage UPDATE handler.
OnTweetUpdateThread ==
    /\ view = "thread"
    /\ channel # <<>>
    /\ Head(channel).table = "tweets"
    /\ Head(channel).event = "UPDATE"
    /\ channel' = Tail(channel)
    /\ tweet' = MergeUpdateThread(tweet, Head(channel).row)
    /\ UNCHANGED <<sideVars, postVars, threadVars, dbVars, srvOps, netFails, view, tweetId, subscribed, budget,
                   tweets, fetch, inserts, likeOps, nLike, toasts>>
    /\ chain' = NoChain

\* Comments INSERT handler up to its await of the select of the new comment.
OnCommentInsert ==
    /\ view = "thread"
    /\ channel # <<>>
    /\ Head(channel).table = "comments"
    /\ Head(channel).event = "INSERT"
    /\ channel' = Tail(channel)
    /\ cmtOps' = [cmtOps EXCEPT ![Head(channel).row.id] = [pc |-> "comment"]]
    /\ UNCHANGED <<sideVars, postVars, comments, newComment, sendOps, nSend, refresh, dbVars, srvOps,
                   netFails, view, tweetId, subscribed, budget, clientVars>>

\* The select of the new comment .single() returns: with no data (an error,
\* or the row is gone) the handler returns, else it awaits the profile select.
CommentFetched(id, commentError) ==
    LET rows == {c \in tbl_comments : c.id = id}
    IN /\ view = "thread"
       /\ cmtOps[id].pc = "comment"
       /\ cmtOps' = [cmtOps EXCEPT ![id] =
             IF commentError \/ rows = {}
             THEN [pc |-> "done", merged |-> FALSE, profileError |-> FALSE]
             ELSE IF Old(cmtOps[id])
                  THEN [pc |-> "profile",
                        newCommentData |-> CommentData(CHOOSE c \in rows : TRUE),
                        old |-> TRUE]
                  ELSE [pc |-> "profile",
                        newCommentData |-> CommentData(CHOOSE c \in rows : TRUE)]]
       /\ Failures(IF commentError THEN 1 ELSE 0)
       /\ UNCHANGED <<sideVars, postVars, comments, newComment, sendOps, nSend, refresh, dbVars, srvOps,
                      rtVars, clientVars>>

\* The profile select returns: the comment is appended and the counter bumped.
CommentProfileFetched(id, profileError) ==
    /\ view = "thread"
    /\ cmtOps[id].pc = "profile"
    /\ comments' = MergeComment(comments, cmtOps[id].newCommentData, profileError)
    /\ tweet' = BumpCommentsCount(tweet)
    /\ cmtOps' = [cmtOps EXCEPT ![id] =
          [pc |-> "done", merged |-> TRUE, profileError |-> profileError]]
    /\ Failures(IF profileError THEN 1 ELSE 0)
    /\ chain' = NoChain
    /\ UNCHANGED <<sideVars, postVars, newComment, sendOps, nSend, refresh, dbVars, srvOps, rtVars,
                   tweets, fetch, inserts, likeOps, nLike, toasts>>

\* -------------------------------------------------------- handleSendComment
\* The user types a draft into the composer.
TypeComment ==
    /\ view = "thread"
    /\ nSend < budget.sends
    /\ newComment = ""
    /\ newComment' = "text"
    /\ UNCHANGED <<sideVars, postVars, comments, cmtOps, sendOps, nSend, refresh, dbVars, srvOps,
                   netFails, rtVars, clientVars>>

\* handleSendComment up to its await of the comments insert.
HandleSendComment ==
    /\ view = "thread"
    /\ nSend < budget.sends
    /\ newComment # ""
    /\ sendOps' = [sendOps EXCEPT ![nSend + 1] =
          [pc |-> "await", tweet_id |-> tweetId, error |-> FALSE]]
    /\ nSend' = nSend + 1
    /\ UNCHANGED <<sideVars, postVars, comments, newComment, cmtOps, refresh, dbVars, srvOps,
                   netFails, rtVars, clientVars>>

\* The server runs the insert of invocation k and answers.
SendCommentExec(k) ==
    LET r == DbCommentsInsert(Me, Me, sendOps[k].tweet_id)
    IN /\ sendOps[k].pc = "await"
       /\ nextCommentId <= MaxComments
       /\ tbl_comments' = r.comments
       /\ tbl_tweets' = r.tweets
       /\ nextCommentId' = IF r.error THEN nextCommentId ELSE nextCommentId + 1
       /\ Emit(r.events)
       /\ sendOps' = [sendOps EXCEPT ![k].pc = "resp", ![k].error = r.error]
       /\ UNCHANGED <<sideVars, postVars, comments, newComment, cmtOps, nSend, refresh, tbl_likes,
                      nextTweetId, srvOps, netFails, view, tweetId, subscribed, budget,
                      clientVars>>

\* The request of invocation k fails before it reaches the database.
SendCommentFail(k) ==
    /\ sendOps[k].pc = "await"
    /\ sendOps' = [sendOps EXCEPT ![k].pc = "resp", ![k].error = TRUE]
    /\ Failures(1)
    /\ UNCHANGED <<sideVars, postVars, comments, newComment, cmtOps, nSend, refresh, dbVars, srvOps,
                   rtVars, clientVars>>

\* toast({ description }) of handleSendComment.
SendToast(error) ==
    IF error THEN "Failed to send comment" ELSE "Comment posted successfully!"

\* handleSendComment after its await: on success the draft is cleared and the
\* refresh scheduled (and a handler that clears and schedules in any case).
SendOutcome_always(error) == [newComment |-> "", refresh |-> refresh + 1]

SendOutcome(error) ==
    IF error THEN [newComment |-> newComment, refresh |-> refresh]
    ELSE [newComment |-> "", refresh |-> refresh + 1]

SendCommentSettle(k) ==
    /\ sendOps[k].pc = "resp"
    /\ sendOps' = [sendOps EXCEPT ![k].pc = "done"]
    /\ toasts' = [toasts EXCEPT ![SendToast(sendOps[k].error)] = @ + 1]
    /\ IF Gone(sendOps[k]) THEN UNCHANGED <<newComment, refresh>>
       ELSE /\ newComment' = SendOutcome(sendOps[k].error).newComment
            /\ refresh' = SendOutcome(sendOps[k].error).refresh
    /\ UNCHANGED <<sideVars, postVars, comments, cmtOps, nSend, dbVars, srvOps, netFails, rtVars,
                   tweets, tweet, fetch, inserts, likeOps, nLike, chain>>

\* The timer fires: fetchTweetAndComments() starts again.
RefreshFires ==
    /\ view = "thread"
    /\ refresh > 0
    /\ fetch.pc = "done"
    /\ refresh' = refresh - 1
    /\ fetch' = [pc |-> "tweet"]
    /\ UNCHANGED <<sideVars, postVars, comments, newComment, cmtOps, sendOps, nSend, dbVars, srvOps,
                   netFails, rtVars, tweets, tweet, inserts, likeOps, nLike, toasts, chain>>

\* --------------------------------------------------------------- handleLike
\* Invocations of handleLike that have not returned yet.
InFlight == Cardinality({m \in LikeSlots : likeOps[m].pc \in {"await", "resp"}})

\* History of a toggle that starts: it continues the run of its post when no
\* other toggle is in flight, and otherwise no run is left.
ChainStart(id, isLiked, likes_count) ==
    IF InFlight > 0 THEN NoChain
    ELSE IF chain # NoChain /\ chain.id = id THEN [chain EXCEPT !.pending = TRUE]
         ELSE [len |-> 0, id |-> id, likes_count |-> likes_count, user_liked |-> isLiked,
               pending |-> TRUE]

\* History of a toggle that returns: a success extends the run, an error ends it.
ChainSettle(error) ==
    IF chain = NoChain \/ error THEN NoChain
    ELSE [chain EXCEPT !.len = @ + 1, !.pending = FALSE]

\* handleLike's early return: no tweet with the id in the list (and a handler
\* that also returns while another toggle of the same post has not returned).
HandleLikeReturns_inflight(list, id) ==
    \/ Find(list, id) = NoTweet
    \/ \E m \in LikeSlots : likeOps[m].pc \in {"await", "resp"} /\ likeOps[m].tweetId = id

HandleLikeReturns(list, id) == Find(list, id) = NoTweet

\* Dashboard.handleLike(tweets[i].id, tweets[i].user_liked) up to its await.
HandleLike(i) ==
    LET id == tweets[i].id
        isLiked == tweets[i].user_liked
        currentTweet == Find(tweets, id)
    IN /\ view = "feed"
       /\ nLike < budget.likes
       /\ InFlight < MaxInFlight
       /\ ~HandleLikeReturns(tweets, id)
       /\ tweets' = OptimisticLike(tweets, id, isLiked, currentTweet.likes_count)
       /\ likeOps' = [likeOps EXCEPT ![nLike + 1] =
             [pc |-> "await", tweetId |-> id, isLiked |-> isLiked,
              likes_count |-> currentTweet.likes_count,
              write |-> LikeWrite(isLiked, id), writes |-> 1, error |-> FALSE]]
       /\ nLike' = nLike + 1
       /\ UNCHANGED <<sideVars, postVars, threadVars, dbVars, srvOps, netFails, rtVars, tweet, fetch, inserts, toasts>>
       /\ chain' = ChainStart(id, isLiked, currentTweet.likes_count)

\* CommentsPage.handleLike(tweet.user_liked) up to its await.
HandleLikeThread ==
    /\ view = "thread"
    /\ nLike < budget.likes
    /\ InFlight < MaxInFlight
    /\ tweet # NoTweet
    /\ tweet' = OptimisticLikeThread(tweet, tweet.user_liked, tweet.likes_count)
    /\ likeOps' = [likeOps EXCEPT ![nLike + 1] =
          [pc |-> "await", tweetId |-> tweet.id, isLiked |-> tweet.user_liked,
           likes_count |-> tweet.likes_count,
           write |-> LikeWrite(tweet.user_liked, tweet.id), writes |-> 1,
           error |-> FALSE]]
    /\ nLike' = nLike + 1
    /\ UNCHANGED <<sideVars, postVars, threadVars, dbVars, srvOps, netFails, rtVars, tweets, fetch, inserts, toasts>>
    /\ chain' = ChainStart(tweet.id, tweet.user_liked, tweet.likes_count)

\* The server runs the write of invocation m and answers.
LikeWriteExec(m) ==
    LET w == likeOps[m].write
        r == IF w.op = "insert" THEN DbLikesInsert(Me, w.user_id, w.tweet_id)
             ELSE DbLikesDelete(Me, w.user_id, w.tweet_id)
    IN /\ likeOps[m].pc = "await"
       /\ tbl_likes' = r.likes
       /\ tbl_tweets' = r.tweets
       /\ Emit(UpdateEvents(r.tweets, w.tweet_id))
       /\ likeOps' = [likeOps EXCEPT ![m].pc = "resp", ![m].error = r.error]
       /\ UNCHANGED <<sideVars, postVars, threadVars, tbl_comments, nextTweetId, nextCommentId, srvOps, netFails,
                      view, tweetId, subscribed, budget,
                      tweets, tweet, fetch, inserts, nLike, toasts>>
       /\ UNCHANGED chain

\* The request of invocation m fails before it reaches the database.
LikeWriteFail(m) ==
    /\ likeOps[m].pc = "await"
    /\ likeOps' = [likeOps EXCEPT ![m].pc = "resp", ![m].error = TRUE]
    /\ Failures(1)
    /\ UNCHANGED <<sideVars, postVars, threadVars, dbVars, srvOps, rtVars, tweets, tweet, fetch, inserts, nLike, toasts>>
    /\ UNCHANGED chain

\* handleLike after its await: on error the revert and the toast.
LikeSettle(m) ==
    LET op == likeOps[m]
    IN /\ op.pc = "resp"
       /\ likeOps' = [likeOps EXCEPT ![m] = Settled(op, op.error)]
       /\ IF op.error
          THEN /\ toasts' = [toasts EXCEPT ![LikeToast(op.isLiked)] = @ + 1]
               /\ IF Gone(op) THEN UNCHANGED <<tweets, tweet>>
                  ELSE IF view = "feed"
                  THEN /\ tweets' = RevertLike(tweets, op.tweetId, op.isLiked, op.likes_count)
                       /\ tweet' = tweet
                  ELSE /\ tweet' = RevertLikeThread(tweet, op.isLiked, op.likes_count)
                       /\ tweets' = tweets
          ELSE UNCHANGED <<tweets, tweet, toasts>>
       /\ UNCHANGED <<sideVars, postVars, threadVars, dbVars, srvOps, netFails, rtVars, fetch, inserts, nLike>>
       /\ chain' = ChainSettle(op.error)

\* ---------------------------------------------------------- handleSendTweet
\* Invocations of a handler so far.
Started(ops) == Cardinality({k \in DOMAIN ops : ops[k].pc # "idle"})

\* handleSendTweet with a draft typed, up to its await of the tweets insert.
HandleSendTweet ==
    /\ view = "feed"
    /\ Started(postOps) < budget.posts
    /\ postOps' = [postOps EXCEPT ![Started(postOps) + 1] = [pc |-> "await", error |-> FALSE]]
    /\ UNCHANGED <<sideVars, delOps, threadVars, dbVars, srvOps, netFails, rtVars, clientVars>>

\* The server runs the insert of invocation k and answers.
SendTweetExec(k) ==
    LET r == DbTweetsInsert(Me, Me)
    IN /\ postOps[k].pc = "await"
       /\ nextTweetId <= MaxTweets
       /\ tbl_tweets' = r.tweets
       /\ nextTweetId' = IF r.error THEN nextTweetId ELSE nextTweetId + 1
       /\ Emit(IF r.error THEN <<>>
               ELSE <<[event |-> "INSERT", table |-> "tweets",
                       row |-> TweetRow(nextTweetId, Me)]>>)
       /\ postOps' = [postOps EXCEPT ![k].pc = "resp", ![k].error = r.error]
       /\ UNCHANGED <<sideVars, delOps, threadVars, tbl_likes, tbl_comments, nextCommentId,
                      srvOps, netFails, view, tweetId, subscribed, budget, clientVars>>

\* The request of invocation k fails before it reaches the database.
SendTweetFail(k) ==
    /\ postOps[k].pc = "await"
    /\ postOps' = [postOps EXCEPT ![k].pc = "resp", ![k].error = TRUE]
    /\ Failures(1)
    /\ UNCHANGED <<sideVars, delOps, threadVars, dbVars, srvOps, rtVars, clientVars>>

\* toast({ description }) of handleSendTweet.
TweetToast(error) ==
    IF error THEN "Failed to send tweet" ELSE "Tweet posted successfully!"

\* handleSendTweet after its await: the toast, and on success the timer
\* setTimeout(() => fetchTweets(), 500).
SendTweetSettle(k) ==
    /\ postOps[k].pc = "resp"
    /\ postOps' = [postOps EXCEPT ![k] = [pc |-> "done", error |-> postOps[k].error]]
    /\ toasts' = [toasts EXCEPT ![TweetToast(postOps[k].error)] = @ + 1]
    /\ refresh' = IF postOps[k].error \/ Gone(postOps[k]) THEN refresh ELSE refresh + 1
    /\ UNCHANGED <<sideVars, delOps, comments, newComment, cmtOps, sendOps, nSend, dbVars,
                   srvOps, netFails, rtVars, tweets, tweet, fetch, inserts, likeOps, nLike,
                   chain>>

\* The timer fires: fetchTweets() starts again.
RefreshFeedFires ==
    /\ view = "feed"
    /\ refresh > 0
    /\ fetch.pc = "done"
    /\ refresh' = refresh - 1
    /\ fetch' = [pc |-> "tweets"]
    /\ UNCHANGED <<sideVars, postVars, comments, newComment, cmtOps, sendOps, nSend, dbVars,
                   srvOps, netFails, rtVars, tweets, tweet, inserts, likeOps, nLike, toasts,
                   chain>>

\* -------------------------------------------------------- handleDeleteTweet
\* handleDeleteTweet(tweets[i].id) up to its await of the delete; the menu
\* item is rendered for the user's own posts (isOwnTweet).
HandleDeleteTweet(i) ==
    /\ view = "feed"
    /\ Started(delOps) < budget.dels
    /\ tweets[i].user_id = Me
    /\ delOps' = [delOps EXCEPT ![Started(delOps) + 1] =
          [pc |-> "await", tweetId |-> tweets[i].id, error |-> FALSE]]
    /\ UNCHANGED <<sideVars, postOps, threadVars, dbVars, srvOps, netFails, rtVars, clientVars>>

\* The server runs from('tweets').delete().eq('id', tweetId).eq('user_id',
\* user.id) of invocation k and answers: no error, also with no row matched.
DeleteTweetExec(k) ==
    LET id == delOps[k].tweetId
        match == tbl_tweets[id] # NoRow /\ tbl_tweets[id].user_id = Me
        r == DbTweetsDelete(Me, id)
    IN /\ delOps[k].pc = "await"
       /\ tbl_tweets' = IF match THEN r.tweets ELSE tbl_tweets
       /\ tbl_likes' = IF match THEN r.likes ELSE tbl_likes
       /\ tbl_comments' = IF match THEN r.comments ELSE tbl_comments
       /\ Emit(IF match /\ r.tweets # tbl_tweets
               THEN <<[event |-> "DELETE", table |-> "tweets", row |-> [id |-> id]]>>
               ELSE <<>>)
       /\ delOps' = [delOps EXCEPT ![k].pc = "resp"]
       /\ UNCHANGED <<sideVars, postOps, threadVars, nextTweetId, nextCommentId, srvOps,
                      netFails, view, tweetId, subscribed, budget, clientVars>>

\* The request of invocation k fails before it reaches the database.
DeleteTweetFail(k) ==
    /\ delOps[k].pc = "await"
    /\ delOps' = [delOps EXCEPT ![k].pc = "resp", ![k].error = TRUE]
    /\ Failures(1)
    /\ UNCHANGED <<sideVars, postOps, threadVars, dbVars, srvOps, rtVars, clientVars>>

\* toast({ description }) of handleDeleteTweet.
DeleteToast(error) ==
    IF error THEN "Failed to delete tweet" ELSE "Tweet deleted successfully"

\* handleDeleteTweet after its await: on success prev.filter(tweet =>
\* tweet.id !== tweetId) (and a handler that filters in any case).
DeleteOutcome_always(prev, id, error) == MergeDelete(prev, id)

DeleteOutcome(prev, id, error) == IF error THEN prev ELSE MergeDelete(prev, id)

DeleteTweetSettle(k) ==
    LET op == delOps[k]
    IN /\ op.pc = "resp"
       /\ delOps' = [delOps EXCEPT ![k] = [pc |-> "done", error |-> op.error]]
       /\ toasts' = [toasts EXCEPT ![DeleteToast(op.error)] = @ + 1]
       /\ tweets' = IF Gone(op) THEN tweets ELSE DeleteOutcome(tweets, op.tweetId, op.error)
       /\ chain' = IF tweets' = tweets THEN chain ELSE NoChain
       /\ UNCHANGED <<sideVars, postOps, threadVars, dbVars, srvOps, netFails, rtVars, tweet,
                      fetch, inserts, likeOps, nLike>>

Next ==
    \/ OtherRequest
    \/ MountDashboard
    \/ \E id \in TweetIds : MountCommentsPage(id)
    \/ ChannelJoined
    \/ EffectRerun
    \/ Unmount
    \/ \E e \in BOOLEAN : FetchTweetsSelect(e)
    \/ \E pe \in BOOLEAN, le \in BOOLEAN : FetchProfilesLikes(pe, le)
    \/ FetchSetTweets
    \/ \E e \in BOOLEAN : ThreadFetchTweet(e)
    \/ \E pe \in BOOLEAN, le \in BOOLEAN : ThreadFetchProfileLike(pe, le)
    \/ ThreadSetTweet
    \/ OnTweetInsert
    \/ \E id \in TweetIds, e \in BOOLEAN : InsertProfileFetched(id, e)
    \/ OnTweetUpdate
    \/ OnTweetDelete
    \/ OnTweetUpdateThread
    \/ \E e \in BOOLEAN : ThreadFetchComments(e)
    \/ \E e \in BOOLEAN : ThreadSetComments(e)
    \/ OnCommentInsert
    \/ \E id \in CommentIds, e \in BOOLEAN : CommentFetched(id, e)
    \/ \E id \in CommentIds, e \in BOOLEAN : CommentProfileFetched(id, e)
    \/ TypeComment
    \/ HandleSendComment
    \/ \E k \in 1..MaxSends : SendCommentExec(k)
    \/ \E k \in 1..MaxSends : SendCommentFail(k)
    \/ \E k \in 1..MaxSends : SendCommentSettle(k)
    \/ RefreshFires
    \/ \E i \in 1..Len(tweets) : HandleLike(i)
    \/ HandleLikeThread
    \/ \E m \in LikeSlots : LikeWriteExec(m)
    \/ \E m \in LikeSlots : LikeWriteFail(m)
    \/ \E m \in LikeSlots : LikeSettle(m)
    \/ HandleSendTweet
    \/ \E k \in 1..MaxPosts : SendTweetExec(k)
    \/ \E k \in 1..MaxPosts : SendTweetFail(k)
    \/ \E k \in 1..MaxPosts : SendTweetSettle(k)
    \/ RefreshFeedFires
    \/ \E i \in 1..Len(tweets) : HandleDeleteTweet(i)
    \/ \E k \in 1..MaxDels : DeleteTweetExec(k)
    \/ \E k \in 1..MaxDels : DeleteTweetFail(k)
    \/ \E k \in 1..MaxDels : DeleteTweetSettle(k)

Spec == Init /\ [][Next]_vars

\* ------------------------------------------------------------------ signup
Emails == {"a@x", "b@x"}
Passwords == {<<1, 1, 1, 1, 1>>, <<1, 1, 1, 1, 1, 1>>, <<2, 2, 2, 2, 2, 2>>}
PasswordMin == 6
NotAuthorized == "This email is not authorized for registration. Please contact an administrator."
UnableToVerify == "Unable to verify email authorization. Please try again."

\* handleSignup's checks before setIsLoading(true): the toast title, or "ok".
ValidateSignup(password, confirmPassword) ==
    IF password # confirmPassword THEN "Passwords don't match"
    ELSE IF Len(password) < PasswordMin THEN "Password too short"
         ELSE "ok"

\* public.is_email_allowed(email_to_check)
is_email_allowed(email_to_check) == email_to_check \in email_allowlist

\* AuthContext.signup after the rpc: the message of the Error it throws, or
\* "none" when it goes on to auth.signUp (and a signup without the gate, and
\* one that takes a failed check for a passed one).
SignupThrows_noGate(rpc) ==
    IF rpc = "error" THEN UnableToVerify ELSE "none"

SignupThrows_noError(rpc) ==
    IF rpc = "false" THEN NotAuthorized ELSE "none"

SignupThrows(rpc) ==
    IF rpc = "error" THEN UnableToVerify
    ELSE IF rpc = "false" THEN NotAuthorized
         ELSE "none"

\* ---------------------------------------------------- profiles and avatars
\* The names a profile form is filled with ("": the field left empty).
Names == {"", "n1"}

\* handle_new_user(): the profiles row of the new identity; it has no
\* avatar.  COALESCE takes the email only when the metadata has no full_name.
handle_new_user(new) ==
    [user_id |-> new.id,
     display_name |-> IF new.full_name = "null" THEN new.email ELSE new.full_name,
     email |-> new.email, avatar_url |-> 0]

\* An insert into public.profiles: profiles_user_id_unique makes a second row
\* of the same user_id an error.
ProfilesInsert(row) ==
    IF \E r \in tbl_profiles : r.user_id = row.user_id
    THEN [error |-> TRUE, profiles |-> tbl_profiles]
    ELSE [error |-> FALSE, profiles |-> tbl_profiles \cup {row}]

\* The trigger that runs handle_new_user() after each insert on auth.users,
\* in the transaction of the insert.
on_auth_user_created(new) == ProfilesInsert(handle_new_user(new))

\* auth.signUp on the server: an email that has an identity gets no second
\* one; else the identity is inserted (its id is modelled by its email) and
\* the trigger runs; an error of the trigger undoes the insert.
AuthUsersInsert(email, full_name) ==
    LET new == [id |-> email, email |-> email, full_name |-> full_name]
    IN IF email \in auth_users \/ on_auth_user_created(new).error
       THEN [users |-> auth_users, profiles |-> tbl_profiles]
       ELSE [users |-> auth_users \cup {email}, profiles |-> on_auth_user_created(new).profiles]

\* updateProfile's statement on the server (and the statement without its
\* filter): display_name and avatar_url of the rows with the user_id are set
\* to the fields the payload defines.
ProfilesUpdate_all(user_id, updates) ==
    {[r EXCEPT !.display_name = IF "name" \in DOMAIN updates THEN updates.name ELSE @,
               !.avatar_url = IF "avatar" \in DOMAIN updates THEN updates.avatar ELSE @] :
        r \in tbl_profiles}

ProfilesUpdate(user_id, updates) ==
    {IF r.user_id = user_id
     THEN [r EXCEPT !.display_name = IF "name" \in DOMAIN updates THEN updates.name ELSE @,
                    !.avatar_url = IF "avatar" \in DOMAIN updates THEN updates.avatar ELSE @]
     ELSE r : r \in tbl_profiles}

\* The files the user picks: MIME type, extension of the name, size in bytes.
AvatarSizeLimit == 5242880
FileTypes == {"image/png", "image/svg+xml"}
FileExts == {"png", "svg"}
FileSizes == {AvatarSizeLimit - 1, AvatarSizeLimit, AvatarSizeLimit + 1}
Files == [type : FileTypes, ext : FileExts, size : FileSizes]

\* handleImageUpload's checks before setUploading(true) (and the size check
\* with >= for >).
ValidateFile_strict(file) ==
    IF file.type \notin {"image/jpeg", "image/jpg", "image/png", "image/webp", "image/gif"}
    THEN "Invalid file type"
    ELSE IF file.size >= 5 * 1024 * 1024 THEN "File too large"
         ELSE "ok"

ValidateFile(file) ==
    IF file.type \notin {"image/jpeg", "image/jpg", "image/png", "image/webp", "image/gif"}
    THEN "Invalid file type"
    ELSE IF file.size > 5 * 1024 * 1024 THEN "File too large"
         ELSE "ok"

\* "Users can upload their own avatar": WITH CHECK on the new row's name.
AvatarInsertPolicy(uid, folder, ext) ==
    /\ uid # ""
    /\ uid = folder
    /\ ext \in {"jpg", "jpeg", "png", "webp", "gif"}

\* "Users can update / delete their own avatar": USING on the row's name.
AvatarOwnFolder(uid, folder) == uid # "" /\ uid = folder

\* check_avatar_size(): TRUE when it raises.
check_avatar_size(size) == size > AvatarSizeLimit

\* storage.objects after an upload by the session uid to avatars/folder/x.ext.
StorageObjectsInsert(uid, folder, ext, size) ==
    IF ~AvatarInsertPolicy(uid, folder, ext) \/ check_avatar_size(size)
    THEN [error |-> TRUE, objects |-> storage_objects]
    ELSE [error |-> FALSE,
          objects |-> storage_objects \cup
              {[id |-> nextObjectId, owner |-> uid, folder |-> folder, ext |-> ext,
                size |-> size]}]

\* storage.objects after a move by the session uid of object id to
\* avatars/folder/x.ext: the UPDATE policy holds of the old and the new row,
\* and the size trigger runs on the new row.
StorageObjectsUpdate(uid, id, folder, ext) ==
    {IF o.id = id /\ AvatarOwnFolder(uid, o.folder) /\ AvatarOwnFolder(uid, folder)
        /\ ~check_avatar_size(o.size)
     THEN [o EXCEPT !.folder = folder, !.ext = ext] ELSE o : o \in storage_objects}

\* storage.objects after remove([folder/id]) by the session uid.
StorageObjectsDelete(uid, id, folder) ==
    {o \in storage_objects : ~(o.id = id /\ o.folder = folder /\ AvatarOwnFolder(uid, folder))}

\* handleInputChange: a field of the mounted form is typed into.
InputChange(field, value) ==
    /\ page \in AuthPages
    /\ field = "email" => page = "login"
    /\ formData[field] # value
    /\ formData' = [formData EXCEPT ![field] = value]
    /\ UNCHANGED <<authVars, page, isLoading, pwOps, appVars, profVars>>

\* handleSignup up to the await of signup(), which has sent the rpc; the
\* submit button is disabled while isLoading.
HandleSignup(k) ==
    /\ page = "login"
    /\ ~isLoading
    /\ signupOps[k].pc = "idle"
    /\ \A j \in 1..(k - 1) : signupOps[j].pc # "idle"
    /\ IF ValidateSignup(formData.password, formData.confirmPassword) # "ok"
       THEN /\ signupOps' = [signupOps EXCEPT ![k] =
                  [pc |-> "done", email |-> formData.email, rpc |-> "none",
                   signUpIssued |-> FALSE, created |-> FALSE,
                   toast |-> ValidateSignup(formData.password, formData.confirmPassword)]]
            /\ isLoading' = isLoading
       ELSE /\ signupOps' = [signupOps EXCEPT ![k] =
                  [pc |-> "rpc", email |-> formData.email, rpc |-> "none",
                   signUpIssued |-> FALSE, created |-> FALSE, toast |-> "none"]]
            /\ isLoading' = TRUE
    /\ UNCHANGED <<email_allowlist, auth_users, tbl_profiles, page, formData, pwOps, appVars,
                   profVars>>

\* The rpc returns (or fails); signup throws, or sends auth.signUp.
AllowlistRpc(k, allowlistError) ==
    LET op == signupOps[k]
        rpc == IF allowlistError THEN "error"
               ELSE IF is_email_allowed(op.email) THEN "true" ELSE "false"
        thrown == SignupThrows(rpc)
    IN /\ op.pc = "rpc"
       /\ signupOps' = [signupOps EXCEPT ![k] =
             IF thrown # "none"
             THEN [op EXCEPT !.pc = "done", !.rpc = rpc, !.toast = thrown]
             ELSE [op EXCEPT !.pc = "signUp", !.rpc = rpc, !.signUpIssued = TRUE]]
       /\ isLoading' = IF thrown # "none" THEN FALSE ELSE isLoading
       /\ UNCHANGED <<email_allowlist, auth_users, tbl_profiles, page, formData, pwOps,
                      appVars, profVars>>

\* auth.signUp returns: the identity is created unless it is an error; on
\* success the form is reset.
AuthSignUp(k, error) ==
    LET op == signupOps[k]
    IN /\ op.pc = "signUp"
       /\ auth_users' = IF error THEN auth_users ELSE AuthUsersInsert(op.email, "").users
       /\ tbl_profiles' = IF error THEN tbl_profiles
                          ELSE AuthUsersInsert(op.email, "").profiles
       /\ signupOps' = [signupOps EXCEPT ![k] =
             [op EXCEPT !.pc = "done",
                        !.created = ~error /\ op.email \notin auth_users,
                        !.toast = IF error THEN "Signup failed"
                                  ELSE "Account created successfully!"]]
       /\ formData' = IF error THEN formData ELSE EmptyForm
       /\ isLoading' = FALSE
       /\ UNCHANGED <<email_allowlist, page, pwOps, appVars, profVars>>

\* "Admins can manage allowlist": an admin adds or removes a row.
AllowlistInsert(email) ==
    /\ email \notin email_allowlist
    /\ email_allowlist' = email_allowlist \cup {email}
    /\ UNCHANGED <<auth_users, signupOps, tbl_profiles, formVars, appVars, profVars>>

AllowlistDelete(email) ==
    /\ email \in email_allowlist
    /\ email_allowlist' = email_allowlist \ {email}
    /\ UNCHANGED <<auth_users, signupOps, tbl_profiles, formVars, appVars, profVars>>

\* handleChangePassword's checks before setIsLoading(true) (and the length
\* check with the comparison off by one).
ValidateChange_off(newPassword, confirmPassword) ==
    IF newPassword # confirmPassword THEN "Passwords don't match"
    ELSE IF Len(newPassword) < PasswordMin - 1 THEN "Password too short"
         ELSE "ok"

ValidateChange(newPassword, confirmPassword) ==
    IF newPassword # confirmPassword THEN "Passwords don't match"
    ELSE IF Len(newPassword) < PasswordMin THEN "Password too short"
         ELSE "ok"

\* handleResetPassword's checks before setIsLoading(true).
ValidateReset(password, confirmPassword) ==
    IF password # confirmPassword THEN "Passwords don't match"
    ELSE IF Len(password) < PasswordMin THEN "Password too short"
         ELSE "ok"

\* A password handler up to its await of auth.updateUser, given its checks' result.
SubmitPassword(k, checked) ==
    /\ ~isLoading
    /\ pwOps[k].pc = "idle"
    /\ \A j \in 1..(k - 1) : pwOps[j].pc # "idle"
    /\ IF checked # "ok"
       THEN /\ pwOps' = [pwOps EXCEPT ![k] =
                  [pc |-> "done", updateUserIssued |-> FALSE, toast |-> checked]]
            /\ isLoading' = isLoading
       ELSE /\ pwOps' = [pwOps EXCEPT ![k] =
                  [pc |-> "updateUser", updateUserIssued |-> TRUE, toast |-> "none"]]
            /\ isLoading' = TRUE
    /\ UNCHANGED <<authVars, page, formData, appVars, profVars>>

\* ChangePasswordForm.handleChangePassword
HandleChangePassword(k) ==
    /\ page = "change"
    /\ SubmitPassword(k, ValidateChange(formData.password, formData.confirmPassword))

\* ResetPasswordPage.handleResetPassword
HandleResetPassword(k) ==
    /\ page = "reset"
    /\ SubmitPassword(k, ValidateReset(formData.password, formData.confirmPassword))

\* auth.updateUser returns: on success the change form is reset and the reset
\* page navigates to the dashboard; finally setIsLoading(false).
UpdateUserReturn(k, error) ==
    /\ pwOps[k].pc = "updateUser"
    /\ pwOps' = [pwOps EXCEPT ![k] =
          [@ EXCEPT !.pc = "done",
                    !.toast = IF error THEN (IF page = "change" THEN "Change failed"
                                             ELSE "Update failed")
                              ELSE IF page = "change" THEN "Password changed"
                                   ELSE "Password updated"]]
    /\ formData' = IF ~error /\ page = "change" THEN EmptyForm ELSE formData
    /\ page' = IF ~error /\ page = "reset" THEN "dashboard" ELSE page
    /\ isLoading' = FALSE
    /\ UNCHANGED <<authVars, appVars, profVars>>

NextSignup ==
    \/ \E field \in {"email"}, value \in Emails : InputChange(field, value)
    \/ \E field \in {"password", "confirmPassword"}, value \in Passwords :
          InputChange(field, value)
    \/ \E k \in 1..MaxSignups : HandleSignup(k)
    \/ \E k \in 1..MaxSignups, e \in BOOLEAN : AllowlistRpc(k, e)
    \/ \E k \in 1..MaxSignups, e \in BOOLEAN : AuthSignUp(k, e)
    \/ \E email \in Emails : AllowlistInsert(email)
    \/ \E email \in Emails : AllowlistDelete(email)
    \/ \E k \in 1..MaxSubmits : HandleChangePassword(k)
    \/ \E k \in 1..MaxSubmits : HandleResetPassword(k)
    \/ \E k \in 1..MaxSubmits, e \in BOOLEAN : UpdateUserReturn(k, e)

SpecSignup == InitSignup /\ [][NextSignup]_vars

\* ------------------------------------------------------------- profile page
\* const isOwnProfile = !userId || userId === user?.id
IsOwnProfile == profilePage.userId = "" \/ profilePage.userId = user

\* The first free slot of an array of invocations (0: none).
FreeSlot(ops) ==
    IF \E k \in DOMAIN ops : ops[k].pc = "idle"
    THEN CHOOSE k \in DOMAIN ops : ops[k].pc = "idle" /\ \A j \in 1..(k - 1) : ops[j].pc # "idle"
    ELSE 0

\* AuthContext.updateProfile up to its await: nothing without a user, else
\* the update with .eq('user_id', user.id) is sent.
updateProfile(ops, caller, updates) ==
    IF user = "" THEN ops
    ELSE [ops EXCEPT ![FreeSlot(ops)] =
             [pc |-> "update", caller |-> caller, user_id |-> user, updates |-> updates,
              gone |-> FALSE]]

\* The invocations go on when their page is left; what they set is gone.
LeavePage(ops) ==
    [k \in DOMAIN ops |->
        IF ops[k].pc \in {"update", "upload"} THEN [ops[k] EXCEPT !.gone = TRUE] ELSE ops[k]]

\* auth.signUp of any client reaches the server.
OtherSignUp(email, full_name) ==
    /\ auth_users' = AuthUsersInsert(email, full_name).users
    /\ tbl_profiles' = AuthUsersInsert(email, full_name).profiles
    /\ UNCHANGED <<email_allowlist, signupOps, formVars, appVars, profVars>>

\* login(), then onAuthStateChange and mapSupabaseUserToUser set the user.
Login(id) ==
    /\ user = ""
    /\ id \in auth_users
    /\ user' = id
    /\ UNCHANGED <<authVars, formVars, appVars, profilePage, profOps, uploadOps,
                   storage_objects, nextObjectId>>

\* logout(): the user is null and ProtectedRoute leaves the page.
Logout ==
    /\ user # ""
    /\ user' = ""
    /\ profilePage' = NoProfilePage
    /\ profOps' = LeavePage(profOps)
    /\ uploadOps' = LeavePage(uploadOps)
    /\ UNCHANGED <<authVars, formVars, appVars, storage_objects, nextObjectId>>

\* /profile/:userId? is opened and fetchProfile sets what .single() returns.
OpenProfile(userId) ==
    LET targetUserId == IF userId = "" THEN user ELSE userId
        rows == {r \in tbl_profiles : r.user_id = targetUserId}
    IN /\ user # ""
       /\ profilePage' =
             IF Cardinality(rows) = 1
             THEN [mounted |-> TRUE, userId |-> userId,
                   profileUser |-> CHOOSE r \in rows : TRUE,
                   profileData |-> [name |-> (CHOOSE r \in rows : TRUE).display_name,
                                    avatar |-> (CHOOSE r \in rows : TRUE).avatar_url]]
             ELSE [NoProfilePage EXCEPT !.mounted = TRUE, !.userId = userId]
       /\ profOps' = LeavePage(profOps)
       /\ uploadOps' = LeavePage(uploadOps)
       /\ UNCHANGED <<authVars, formVars, appVars, user, storage_objects, nextObjectId>>

\* The name input of the editing form is typed into.
EditName(name) ==
    /\ profilePage.mounted
    /\ IsOwnProfile
    /\ profilePage.profileData.name # name
    /\ profilePage' = [profilePage EXCEPT !.profileData.name = name]
    /\ UNCHANGED <<authVars, formVars, appVars, user, profOps, uploadOps, storage_objects,
                   nextObjectId>>

\* ProfilePage.handleSave up to the await of updateProfile.
HandleSave ==
    /\ profilePage.mounted
    /\ FreeSlot(profOps) # 0
    /\ profOps' = IF ~IsOwnProfile THEN profOps
                  ELSE updateProfile(profOps, "handleSave",
                           [name |-> profilePage.profileData.name,
                            avatar |-> profilePage.profileData.avatar])
    /\ UNCHANGED <<authVars, formVars, appVars, user, profilePage, uploadOps, storage_objects,
                   nextObjectId>>

\* ProfileSetup.handleSubmit up to the await of updateProfile(formData).
HandleSubmit(name) ==
    /\ user # ""
    /\ FreeSlot(profOps) # 0
    /\ profOps' = updateProfile(profOps, "handleSubmit", [name |-> name])
    /\ UNCHANGED <<authVars, formVars, appVars, user, profilePage, uploadOps, storage_objects,
                   nextObjectId>>

\* The update of invocation k returns.  handleSave then sets profileUser to
\* what it saved; handleImageUpload shows its toast.
ProfilesUpdateReturn(k, error) ==
    LET op == profOps[k]
    IN /\ op.pc = "update"
       /\ tbl_profiles' = IF error THEN tbl_profiles ELSE ProfilesUpdate(op.user_id, op.updates)
       /\ profOps' = [profOps EXCEPT ![k] = [pc |-> "done"]]
       /\ profilePage' =
             IF ~error /\ ~op.gone /\ op.caller = "handleSave"
                /\ profilePage.profileUser # NoRow
             THEN [profilePage EXCEPT !.profileUser.display_name = op.updates.name,
                                      !.profileUser.avatar_url = op.updates.avatar]
             ELSE profilePage
       /\ uploadOps' =
             IF op.caller = "handleImageUpload"
             THEN [uploadOps EXCEPT ![op.upload] =
                      [pc |-> "done",
                       toast |-> IF error THEN "Upload failed" ELSE "Image uploaded"]]
             ELSE uploadOps
       /\ UNCHANGED <<email_allowlist, auth_users, signupOps, formVars, appVars, user,
                      storage_objects, nextObjectId>>

\* ProfilePage.handleImageUpload up to the await of the upload: the checks,
\* then the old avatar is removed and the upload sent.
HandleImageUpload(file) ==
    LET k == FreeSlot(uploadOps)
    IN /\ profilePage.mounted
       /\ k # 0
       /\ IF user = "" THEN UNCHANGED <<uploadOps, storage_objects>>
          ELSE IF ValidateFile(file) # "ok"
          THEN /\ uploadOps' = [uploadOps EXCEPT ![k] =
                     [pc |-> "done", toast |-> ValidateFile(file)]]
               /\ UNCHANGED storage_objects
          ELSE /\ uploadOps' = [uploadOps EXCEPT ![k] =
                     [pc |-> "upload", file |-> file, gone |-> FALSE, uid |-> user,
                      folder |-> user]]
               /\ storage_objects' =
                     IF profilePage.profileUser # NoRow /\ profilePage.profileUser.avatar_url # 0
                     THEN StorageObjectsDelete(user, profilePage.profileUser.avatar_url, user)
                     ELSE storage_objects
       /\ UNCHANGED <<authVars, formVars, appVars, user, profilePage, profOps, nextObjectId>>

\* The upload of invocation k returns: on an error the toast; else the public
\* URL goes into profileData and updateProfile({ avatar }) is called.
StorageUploadReturn(k) ==
    LET op == uploadOps[k]
        r == StorageObjectsInsert(op.uid, op.folder, op.file.ext, op.file.size)
    IN /\ op.pc = "upload"
       /\ nextObjectId <= MaxObjects
       /\ FreeSlot(profOps) # 0
       /\ storage_objects' = r.objects
       /\ nextObjectId' = IF r.error THEN nextObjectId ELSE nextObjectId + 1
       /\ IF r.error
          THEN /\ uploadOps' = [uploadOps EXCEPT ![k] =
                     [pc |-> "done", toast |-> "Upload failed"]]
               /\ UNCHANGED <<profOps, profilePage>>
          ELSE /\ uploadOps' = [uploadOps EXCEPT ![k] =
                     IF user = "" THEN [pc |-> "done", toast |-> "Image uploaded"]
                     ELSE [pc |-> "saving"]]
               /\ profilePage' = IF op.gone THEN profilePage
                                 ELSE [profilePage EXCEPT !.profileData.avatar = nextObjectId]
               /\ profOps' =
                     IF user = "" THEN profOps
                     ELSE [updateProfile(profOps, "handleImageUpload", [avatar |-> nextObjectId])
                              EXCEPT ![FreeSlot(profOps)] =
                                  [pc |-> "update", caller |-> "handleImageUpload",
                                   user_id |-> user, updates |-> [avatar |-> nextObjectId],
                                   gone |-> op.gone, upload |-> k]]
       /\ UNCHANGED <<authVars, formVars, appVars, user>>

\* The upload of invocation k fails before it reaches the server.
StorageUploadFail(k) ==
    /\ uploadOps[k].pc = "upload"
    /\ uploadOps' = [uploadOps EXCEPT ![k] = [pc |-> "done", toast |-> "Upload failed"]]
    /\ UNCHANGED <<authVars, formVars, appVars, user, profilePage, profOps, storage_objects,
                   nextObjectId>>

\* An upload to the avatars bucket by any session, to any folder.
StorageUploadAs(uid, folder, ext, size) ==
    LET r == StorageObjectsInsert(uid, folder, ext, size)
    IN /\ nextObjectId <= MaxObjects
       /\ storage_objects' = r.objects
       /\ nextObjectId' = IF r.error THEN nextObjectId ELSE nextObjectId + 1
       /\ UNCHANGED <<authVars, formVars, appVars, user, profilePage, profOps, uploadOps>>

\* A move in the avatars bucket by any session, of any object to any name.
StorageMoveAs(uid, id, folder, ext) ==
    /\ storage_objects' = StorageObjectsUpdate(uid, id, folder, ext)
    /\ UNCHANGED <<authVars, formVars, appVars, user, profilePage, profOps, uploadOps,
                   nextObjectId>>

NextProfile ==
    \/ \E email \in Emails, full_name \in {"null", "n1"} : OtherSignUp(email, full_name)
    \/ \E id \in Emails : Login(id)
    \/ Logout
    \/ \E userId \in Emails \cup {""} : OpenProfile(userId)
    \/ \E name \in Names : EditName(name)
    \/ HandleSave
    \/ \E name \in Names : HandleSubmit(name)
    \/ \E k \in 1..MaxProfOps, e \in BOOLEAN : ProfilesUpdateReturn(k, e)
    \/ \E file \in {f \in Files : f.ext = "png" /\ f.size = AvatarSizeLimit} :
          Started(uploadOps) = 0 /\ HandleImageUpload(file)
    \/ \E k \in 1..MaxUploads : StorageUploadReturn(k)

\* The initial state with one of the budgets (the views stay unmounted).
InitSide == Init /\ budget.downs

\* Identities, sessions and profile edits.
SpecProfile == InitSide /\ [][NextProfile]_vars

NextAvatar ==
    \/ \E email \in Emails : OtherSignUp(email, "null")
    \/ \E id \in Emails : Login(id)
    \/ OpenProfile("")
    \/ \E file \in Files : HandleImageUpload(file)
    \/ \E k \in 1..MaxUploads : StorageUploadReturn(k)
    \/ \E k \in 1..MaxUploads : StorageUploadFail(k)
    \/ \E k \in 1..MaxProfOps : ProfilesUpdateReturn(k, FALSE)
    \/ \E uid \in Emails \cup {""}, folder \in Emails, ext \in FileExts, size \in FileSizes :
          StorageUploadAs(uid, folder, ext, size)
    \/ \E uid \in Emails, id \in 1..MaxObjects, folder \in Emails, ext \in FileExts :
          StorageMoveAs(uid, id, folder, ext)

\* Avatar uploads of the page and storage requests of any session.
SpecAvatar == InitSide /\ [][NextAvatar]_vars

\* ------------------------------------------- session, routes and admin page
Paths == {"/", "/login", "/dashboard", "/profile-setup", "/admin"}

\* What the profiles select of mapSupabaseUserToUser may return: no row, a
\* row with a column missing or empty, a complete row, an admin's row.
ProfileSamples ==
    {[exists |-> FALSE, is_admin |-> FALSE, program |-> "null", section |-> "null",
      batch |-> "null"],
     [exists |-> TRUE, is_admin |-> FALSE, program |-> "BTech", section |-> "A",
      batch |-> "null"],
     [exists |-> TRUE, is_admin |-> FALSE, program |-> "", section |-> "A",
      batch |-> "2025"],
     [exists |-> TRUE, is_admin |-> FALSE, program |-> "BTech", section |-> "A",
      batch |-> "2025"],
     [exists |-> TRUE, is_admin |-> TRUE, program |-> "BTech", section |-> "A",
      batch |-> "2025"]}

\* profile?.column || undefined
OrUndefined(profile, v) == IF ~profile.exists \/ v \in {"null", ""} THEN "undefined" ELSE v

\* mapSupabaseUserToUser: the fields of the User built from the selected row.
mapSupabaseUserToUser(profile) ==
    [isAdmin |-> profile.exists /\ profile.is_admin,
     program |-> OrUndefined(profile, profile.program),
     section |-> OrUndefined(profile, profile.section),
     batch |-> OrUndefined(profile, profile.batch)]

\* !v
Falsy(v) == v \in {"undefined", "null", ""}

ProtectedRoute_programOnly(ld, u, d, p) ==
    IF ld THEN "spinner"
    ELSE IF u = "" THEN "/login"
    ELSE IF Falsy(d.program) /\ p # "/profile-setup" THEN "/profile-setup"
    ELSE "children"

\* ProtectedRoute: the spinner, the path of the <Navigate> it returns, or its
\* children.
ProtectedRoute(ld, u, d, p) ==
    IF ld THEN "spinner"
    ELSE IF u = "" THEN "/login"
    ELSE IF (Falsy(d.program) \/ Falsy(d.section) \/ Falsy(d.batch)) /\ p # "/profile-setup"
    THEN "/profile-setup"
    ELSE "children"

\* HomeRedirect's effect: the path it navigates to ("": it does not).
HomeRedirect(ld, u, lr) ==
    IF ~ld /\ u # "" THEN (IF lr # "" /\ lr # "/" THEN lr ELSE "/dashboard")
    ELSE IF ~ld /\ u = "" THEN "/login"
    ELSE ""

\* AppContent's routes: the path the element of path p navigates to (p: it
\* stays).
Routes(ld, u, d, p, lr) ==
    IF p = "/login" THEN (IF u # "" THEN "/dashboard" ELSE p)
    ELSE IF p = "/" THEN (IF HomeRedirect(ld, u, lr) = "" THEN p ELSE HomeRedirect(ld, u, lr))
    ELSE IF ProtectedRoute(ld, u, d, p) \in {"/login", "/profile-setup"}
    THEN ProtectedRoute(ld, u, d, p)
    ELSE p

\* RouteTracker's effect: the value of 'lastRoute' after it.
RouteTracker(u, p, lr) == IF u # "" /\ p \notin {"/login", "/reset-password"} THEN p ELSE lr

\* The listener passed to onAuthStateChange, called with session s.
OnAuthStateChange(s) ==
    /\ session' = s
    /\ loading' = FALSE
    /\ lastEvent' = IF s = "" THEN "null" ELSE "session"
    /\ IF s # ""
       THEN /\ FreeSlot(maps) # 0
            /\ maps' = [maps EXCEPT ![FreeSlot(maps)] = [pc |-> "timer", id |-> s]]
            /\ UNCHANGED <<user, userData>>
       ELSE /\ user' = ""
            /\ userData' = NoData
            /\ UNCHANGED maps
    /\ lastRoute' = RouteTracker(user', pathname, lastRoute)
    /\ UNCHANGED <<getSession, pathname, adminPage, toasts, restVars>>

\* A sign-in completes in the client: the listener is called with the session.
SignedIn(id) ==
    /\ authSession = ""
    /\ authSession' = id
    /\ OnAuthStateChange(id)

\* logout(): signOut() ends the client's session and the listener is called
\* with null.
SignedOut ==
    /\ authSession # ""
    /\ authSession' = ""
    /\ OnAuthStateChange("")

\* Another event of the same session (a refreshed token).
TokenRefreshed ==
    /\ authSession # ""
    /\ UNCHANGED authSession
    /\ OnAuthStateChange(authSession)

\* The callback of getSession().then.
GetSessionReturn ==
    /\ getSession = "pending"
    /\ getSession' = "done"
    /\ session' = authSession
    /\ IF authSession # ""
       THEN /\ FreeSlot(maps) # 0
            /\ maps' = [maps EXCEPT ![FreeSlot(maps)] = [pc |-> "select", id |-> authSession]]
       ELSE UNCHANGED maps
    /\ loading' = FALSE
    /\ UNCHANGED <<user, userData, authSession, lastEvent, pathname, lastRoute, adminPage,
                   toasts, restVars>>

\* The listener's setTimeout(..., 0) fires: mapSupabaseUserToUser is called.
MapTimerFires(k) ==
    /\ maps[k].pc = "timer"
    /\ maps' = [maps EXCEPT ![k].pc = "select"]
    /\ UNCHANGED <<user, userData, session, loading, authSession, getSession, lastEvent,
                   pathname, lastRoute, adminPage, toasts, restVars>>

\* The select of call k returns profile: .then(setUser).
MapResolve(k, profile) ==
    /\ maps[k].pc = "select"
    /\ maps' = [maps EXCEPT ![k] = NoMap]
    /\ user' = maps[k].id
    /\ userData' = mapSupabaseUserToUser(profile)
    /\ lastRoute' = RouteTracker(user', pathname, lastRoute)
    /\ UNCHANGED <<session, loading, authSession, getSession, lastEvent, pathname, adminPage,
                   toasts, restVars>>

\* The <Navigate> or the navigate() of the current route's element runs.
Navigate ==
    LET to == Routes(loading, user, userData, pathname, lastRoute)
    IN /\ to # pathname
       /\ pathname' = to
       /\ lastRoute' = RouteTracker(user, to, lastRoute)
       /\ adminPage' = NoAdminPage
       /\ UNCHANGED <<user, userData, session, loading, authSession, getSession, lastEvent,
                      maps, toasts, restVars>>

\* The user follows a link to path p.
GoTo(p) ==
    /\ Routes(loading, user, userData, pathname, lastRoute) = pathname
    /\ p # pathname
    /\ pathname' = p
    /\ lastRoute' = RouteTracker(user, p, lastRoute)
    /\ adminPage' = NoAdminPage
    /\ UNCHANGED <<user, userData, session, loading, authSession, getSession, lastEvent,
                   maps, toasts, restVars>>

AdminPage_open(u, d) == "dashboard"

\* AdminPage: which of its two renders it returns.
AdminPage(u, d) == IF u = "" \/ ~d.isAdmin THEN "denied" ELSE "dashboard"

\* The admin dashboard with its form and its remove buttons is on screen.
AdminShown ==
    /\ pathname = "/admin"
    /\ ProtectedRoute(loading, user, userData, pathname) = "children"
    /\ AdminPage(user, userData) = "dashboard"

AdminOps == toasts["Email already exists"] + toasts["Email added"] + toasts["Email removed"]

\* What is typed into the form's input.
NewEmails == {"", "  ", " User1@Example.com", "new@example.com"}

Trim(s) ==
    IF s = "  " THEN "" ELSE IF s = " User1@Example.com" THEN "User1@Example.com" ELSE s

ToLowerCase(s) == IF s = "User1@Example.com" THEN "user1@example.com" ELSE s

Includes(list, e) == \E i \in 1..Len(list) : list[i] = e

\* The input's onChange.
SetNewEmail(v) ==
    /\ AdminShown
    /\ v # adminPage.newEmail
    /\ adminPage' = [adminPage EXCEPT !.newEmail = v]
    /\ UNCHANGED <<user, userData, session, loading, authSession, getSession, lastEvent,
                   maps, pathname, lastRoute, toasts, restVars>>

\* AdminPage.handleAddEmail.
HandleAddEmail ==
    LET email == ToLowerCase(Trim(adminPage.newEmail))
    IN /\ AdminShown
       /\ AdminOps < MaxAdminOps
       /\ IF Trim(adminPage.newEmail) = "" THEN UNCHANGED <<adminPage, toasts>>
          ELSE IF Includes(adminPage.allowlist, email)
          THEN /\ toasts' = [toasts EXCEPT !["Email already exists"] = @ + 1]
               /\ UNCHANGED adminPage
          ELSE /\ adminPage' = [allowlist |-> Append(adminPage.allowlist, email),
                                newEmail |-> ""]
               /\ toasts' = [toasts EXCEPT !["Email added"] = @ + 1]
       /\ UNCHANGED <<user, userData, session, loading, authSession, getSession, lastEvent,
                      maps, pathname, lastRoute, restVars>>

\* AdminPage.handleRemoveEmail, from the button of a listed email.
HandleRemoveEmail(email) ==
    /\ AdminShown
    /\ AdminOps < MaxAdminOps
    /\ Includes(adminPage.allowlist, email)
    /\ adminPage' = [adminPage EXCEPT !.allowlist = SelectSeq(@, LAMBDA e : e # email)]
    /\ toasts' = [toasts EXCEPT !["Email removed"] = @ + 1]
    /\ UNCHANGED <<user, userData, session, loading, authSession, getSession, lastEvent,
                   maps, pathname, lastRoute, restVars>>

NextApp ==
    \/ \E id \in Emails : SignedIn(id)
    \/ SignedOut
    \/ TokenRefreshed
    \/ GetSessionReturn
    \/ \E k \in 1..MaxMaps : MapTimerFires(k)
    \/ \E k \in 1..MaxMaps, profile \in ProfileSamples : MapResolve(k, profile)
    \/ Navigate
    \/ \E p \in Paths : GoTo(p)
    \/ \E v \in NewEmails : SetNewEmail(v)
    \/ HandleAddEmail
    \/ \E email \in {"user1@example.com", "new@example.com"} : HandleRemoveEmail(email)

\* The app opened on any path, with or without a stored session.
InitApp ==
    /\ InitPages
    /\ page = "login"
    /\ budget.downs
    /\ \E s \in {"", "a@x"}, p \in Paths : InitCtx(s, p)

\* The AuthProvider, the routes and the admin page.
SpecApp == InitApp /\ [][NextApp]_vars

\* ------------------------------------------------------------------ claims
KeptFields == {"id", "user_id", "content", "created_at", "profiles", "user_liked"}

Ids(list) == [i \in 1..Len(list) |-> list[i].id]

\* C1: when the remote write of a toggle returns an error, the step that runs
\* the failure branch leaves the post with exactly the like counter and the
\* flag it had when the toggle was initiated, and emits the error toast; the
\* values the handler captured at initiation are the post's local values.
C1_Rollback ==
    [][\A m \in LikeSlots :
        /\ (likeOps[m].pc = "idle" /\ likeOps'[m].pc = "await") =>
              /\ (view = "feed" /\ Count(tweets, likeOps'[m].tweetId) = 1) =>
                    /\ likeOps'[m].likes_count = Find(tweets, likeOps'[m].tweetId).likes_count
                    /\ likeOps'[m].isLiked = Find(tweets, likeOps'[m].tweetId).user_liked
              /\ view = "thread" =>
                    /\ likeOps'[m].likes_count = tweet.likes_count
                    /\ likeOps'[m].isLiked = tweet.user_liked
        /\ (likeOps[m].pc = "resp" /\ likeOps[m].error /\ likeOps'[m].pc = "done") =>
              /\ toasts'[LikeToast(likeOps[m].isLiked)] =
                    toasts[LikeToast(likeOps[m].isLiked)] + 1
              /\ view = "feed" =>
                    \A i \in 1..Len(tweets') :
                        tweets'[i].id = likeOps[m].tweetId =>
                            /\ tweets'[i].likes_count = likeOps[m].likes_count
                            /\ tweets'[i].user_liked = likeOps[m].isLiked
              /\ (view = "thread" /\ tweet' # NoTweet) =>
                    /\ tweet'.likes_count = likeOps[m].likes_count
                    /\ tweet'.user_liked = likeOps[m].isLiked
      ]_vars

C1_Witness ==
    /\ view = "feed"
    /\ \E m \in LikeSlots : likeOps[m].pc = "done" /\ likeOps[m].error
    /\ toasts["Failed to like tweet"] = 1
    /\ \E i \in 1..Len(tweets) : ~tweets[i].user_liked

\* C2: merging an UPDATE notification for post p sets the likes_count and
\* comments_count of the local item p to the notification's values, keeps its
\* other fields, and keeps every other item and the order; with no item p the
\* list is unchanged.
C2_UpdateMerge ==
    [][(/\ channel # <<>> /\ Head(channel).event = "UPDATE" /\ channel' = Tail(channel)
        /\ ~(EffectRerun \/ Unmount)) =>
        LET new == Head(channel).row
        IN /\ view = "feed" =>
                /\ Len(tweets') = Len(tweets)
                /\ \A i \in 1..Len(tweets) :
                      IF tweets[i].id = new.id
                      THEN /\ tweets'[i].likes_count = new.likes_count
                           /\ tweets'[i].comments_count = new.comments_count
                           /\ \A f \in KeptFields : tweets'[i][f] = tweets[i][f]
                      ELSE tweets'[i] = tweets[i]
           /\ view = "thread" =>
                IF tweet = NoTweet THEN tweet' = NoTweet
                ELSE /\ tweet'.likes_count = new.likes_count
                     /\ tweet'.comments_count = new.comments_count
                     /\ \A f \in KeptFields : tweet'[f] = tweet[f]
      ]_vars

C2_Witness ==
    /\ view = "feed"
    /\ fetch.pc \in {"tweets", "likes", "set"}
    /\ \E i \in 1..Len(tweets) : tweets[i].comments_count = 1

\* C3: when the INSERT handler of post P completes after a failed profile
\* fetch, P is in the feed exactly once, with no author and not liked.
C3_ExactlyOnce ==
    [][\A id \in TweetIds :
        (inserts[id].pc = "profile" /\ inserts'[id].pc = "done" /\ inserts'[id].profileError) =>
            /\ Count(tweets', id) = 1
            /\ Find(tweets', id).profiles = "null"
            /\ Find(tweets', id).user_liked = FALSE
      ]_vars

\* C4: a signup whose allowlist check returned false has thrown the "not
\* authorized for registration" error, has not issued auth.signUp and has
\* created no identity.
C4_AllowlistGate ==
    \A k \in 1..MaxSignups :
        (signupOps[k].pc # "idle" /\ signupOps[k].rpc = "false") =>
            /\ signupOps[k].pc = "done"
            /\ signupOps[k].toast = NotAuthorized
            /\ ~signupOps[k].signUpIssued
            /\ ~signupOps[k].created

C4_Witness ==
    \E k \in 1..MaxSignups :
        /\ signupOps[k].pc = "done"
        /\ signupOps[k].rpc = "false"
        /\ signupOps[k].toast = NotAuthorized
        /\ signupOps[k].email \notin auth_users

\* The post the history of toggles is about, as the view shows it.
ChainPost == IF view = "feed" THEN Find(tweets, chain.id) ELSE tweet

\* Toggles of the run whose optimistic update has been applied.
ChainApplied == chain.len + (IF chain.pending THEN 1 ELSE 0)

\* C5: after k successive successful toggles of a post that started at (N, f),
\* with nothing else merged in between, the flag is f flipped k times and the
\* counter is N for even k and N + 1 (f false) or N - 1 (f true) for odd k; so
\* like, unlike, like from (N, false) ends at (N + 1, true).
C5_ToggleSequence ==
    (chain # NoChain /\ ChainPost # NoTweet) =>
        /\ ChainPost.user_liked =
              (IF ChainApplied % 2 = 1 THEN ~chain.user_liked ELSE chain.user_liked)
        /\ ChainPost.likes_count =
              (IF ChainApplied % 2 = 0 THEN chain.likes_count
               ELSE IF chain.user_liked THEN chain.likes_count - 1
                    ELSE chain.likes_count + 1)
        /\ (chain.len = 3 /\ ~chain.pending /\ ~chain.user_liked) =>
              /\ ChainPost.likes_count = chain.likes_count + 1
              /\ ChainPost.user_liked = TRUE

C5_Witness ==
    /\ chain # NoChain
    /\ chain.len = 3
    /\ ~chain.pending
    /\ ~chain.user_liked
    /\ ChainPost # NoTweet

\* C6: with the feed filled by INSERT notifications only, once the
\* notifications of post 1 and then of post 2 have both been merged, the feed
\* is [2, 1].
C6_ArrivalOrder ==
    (/\ view = "feed"
     /\ fetch.pc \in {"tweets", "likes", "set"}
     /\ MaxTweets >= 2
     /\ inserts[1].pc = "done" /\ inserts[2].pc = "done"
     /\ tbl_tweets[1] # NoRow /\ tbl_tweets[2] # NoRow
     /\ Len(tweets) = 2)
        => Ids(tweets) = <<2, 1>>

\* C7: a step of a toggle of post p in the feed changes no item of another
\* post and keeps the list's length and order, and what it does to p depends
\* on that toggle's own captured values only.
C7_Isolation ==
    [][\A m \in LikeSlots :
        (view = "feed" /\ likeOps'[m] # likeOps[m] /\ ~Unmount) =>
            LET op == IF likeOps[m].pc = "idle" THEN likeOps'[m] ELSE likeOps[m]
            IN /\ Len(tweets') = Len(tweets)
               /\ \A i \in 1..Len(tweets) :
                     IF tweets[i].id # op.tweetId THEN tweets'[i] = tweets[i]
                     ELSE /\ \A f \in KeptFields \ {"user_liked"} : tweets'[i][f] = tweets[i][f]
                          /\ tweets'[i].comments_count = tweets[i].comments_count
                          /\ likeOps[m].pc = "idle" =>
                                /\ tweets'[i].user_liked = ~op.isLiked
                                /\ tweets'[i].likes_count =
                                      (IF op.isLiked THEN op.likes_count - 1
                                       ELSE op.likes_count + 1)
                          /\ (likeOps[m].pc = "resp" /\ likeOps[m].error) =>
                                /\ tweets'[i].user_liked = op.isLiked
                                /\ tweets'[i].likes_count = op.likes_count
                          /\ (likeOps[m].pc = "await" \/
                              (likeOps[m].pc = "resp" /\ ~likeOps[m].error)) =>
                                tweets'[i] = tweets[i]
      ]_vars

C7_Witness ==
    /\ view = "feed"
    /\ \E m, n \in LikeSlots :
          /\ likeOps[m].pc = "resp" /\ likeOps[m].error
          /\ likeOps[n].pc \in {"await", "resp"}
          /\ likeOps[m].tweetId # likeOps[n].tweetId

\* C8: every invocation of handleLike that passed its guards has issued
\* exactly one remote write, the insert of (user, post) when the post was not
\* liked and the delete of (user, post) when it was, also after it returned.
C8_OneWrite ==
    \A m \in LikeSlots :
        /\ likeOps[m].pc # "idle" => likeOps[m].writes = 1
        /\ likeOps[m].pc \in {"await", "resp"} =>
              /\ likeOps[m].write.user_id = Me
              /\ likeOps[m].write.tweet_id = likeOps[m].tweetId
              /\ likeOps[m].write.op = (IF likeOps[m].isLiked THEN "delete" ELSE "insert")

C8_Witness ==
    \E m, n \in LikeSlots :
        /\ likeOps[m].pc = "done" /\ likeOps[m].error /\ likeOps[m].writes = 1
        /\ likeOps[n].pc = "done" /\ ~likeOps[n].error /\ likeOps[n].writes = 1

\* C9: every post's likes_count is the number of like rows of the post and
\* its comments_count the number of comment rows of the post.
C9_Counters ==
    \A id \in TweetIds :
        tbl_tweets[id] # NoRow =>
            /\ tbl_tweets[id].likes_count = LikeRowsOf(id)
            /\ tbl_tweets[id].comments_count = CommentRowsOf(id)

\* C10: no (user_id, tweet_id) pair has more than one like row, and a like
\* insert for a pair that has a row is an error that changes neither the
\* likes table nor the post's likes_count.
C10_LikeUnique ==
    \A u \in Users, id \in TweetIds :
        /\ tbl_likes[<<u, id>>] <= 1
        /\ tbl_likes[<<u, id>>] = 1 =>
              /\ DbLikesInsert(u, u, id).error
              /\ DbLikesInsert(u, u, id).likes = tbl_likes
              /\ DbLikesInsert(u, u, id).tweets = tbl_tweets

C10_Witness ==
    \E u \in Users, id \in TweetIds :
        /\ tbl_likes[<<u, id>>] = 1
        /\ tbl_tweets[id].likes_count = 1
        /\ DbLikesInsert(u, u, id).error

\* C13: merging a DELETE notification for post p leaves no item with id p in
\* the feed and keeps all other items, unmodified and in their order; with no
\* item p in the feed the feed is unchanged.
C13_DeleteMerge ==
    [][(view = "feed" /\ channel # <<>> /\ Head(channel).event = "DELETE"
        /\ channel' = Tail(channel) /\ ~(EffectRerun \/ Unmount)) =>
        LET p == Head(channel).row.id
            kept == {i \in 1..Len(tweets) : tweets[i].id # p}
        IN /\ Count(tweets', p) = 0
           /\ Len(tweets') = Cardinality(kept)
           /\ \A i \in kept :
                 tweets'[Cardinality({j \in kept : j <= i})] = tweets[i]
           /\ Count(tweets, p) = 0 => tweets' = tweets
      ]_vars

\* Post 1 was merged into the feed by its INSERT handler and removed again by
\* its DELETE notification, another post stays.
C13_Witness ==
    /\ view = "feed"
    /\ fetch.pc \in {"tweets", "likes", "set"}
    /\ inserts[1].pc = "done"
    /\ Count(tweets, 1) = 0
    /\ Len(tweets) = 1
    /\ channel = <<>>

\* Occurrences of the id in a list of comments.
CountComments(list, id) == Cardinality({i \in 1..Len(list) : list[i].id = id})

\* C11: when the INSERT handler of a comment that is still in the database
\* completes, the comment is in the thread's list, with no author when the
\* profile fetch failed.
C11_NeverDropped ==
    [][\A id \in CommentIds :
        (/\ cmtOps[id].pc \in {"comment", "profile"}
         /\ cmtOps'[id].pc = "done"
         /\ \E c \in tbl_comments : c.id = id) =>
            /\ CountComments(comments', id) >= 1
            /\ cmtOps'[id].profileError =>
                  \E i \in 1..Len(comments') :
                      comments'[i].id = id /\ comments'[i].profiles = "null"
      ]_vars

\* C12: the step of an INSERT handler that merges its item adds exactly one
\* item, at index 0 of the feed for a post and at the end of the thread's list
\* for a comment, and keeps every item of the list unmodified and in order.
C12_InsertMerge ==
    [][/\ \A id \in TweetIds :
            (view = "feed" /\ inserts[id].pc = "profile" /\ inserts'[id].pc = "done"
             /\ ~Unmount) =>
                /\ Len(tweets') = Len(tweets) + 1
                /\ tweets'[1].id = id
                /\ \A i \in 1..Len(tweets) : tweets'[i + 1] = tweets[i]
       /\ \A id \in CommentIds :
            (view = "thread" /\ cmtOps[id].pc = "profile" /\ cmtOps'[id].pc = "done"
             /\ ~Unmount) =>
                /\ Len(comments') = Len(comments) + 1
                /\ comments'[Len(comments) + 1].id = id
                /\ \A i \in 1..Len(comments) : comments'[i] = comments[i]
      ]_vars

\* Two comments merged by their INSERT handlers before any fetch set the list.
C12_Witness ==
    /\ view = "thread"
    /\ fetch.pc \in {"tweet", "like", "setTweet", "comments", "setComments"}
    /\ \A k \in 1..MaxSends : sendOps[k].pc # "done"
    /\ Len(comments) = 2
    /\ comments[1].id # comments[2].id
    /\ \A i \in 1..2 : cmtOps[comments[i].id].pc = "done" /\ cmtOps[comments[i].id].merged

\* C15: the step of handleSendComment that follows a failed insert keeps the
\* comment list, the post with its counters and the draft, schedules no
\* refresh and emits the failure toast.
C15_FailedSend ==
    [][\A k \in 1..MaxSends :
        (sendOps[k].pc = "resp" /\ sendOps[k].error /\ sendOps'[k].pc = "done") =>
            /\ comments' = comments
            /\ tweet' = tweet
            /\ newComment' = newComment
            /\ refresh' = refresh
            /\ fetch' = fetch
            /\ toasts'["Failed to send comment"] = toasts["Failed to send comment"] + 1
            /\ toasts'["Comment posted successfully!"] = toasts["Comment posted successfully!"]
      ]_vars

C15_Witness ==
    /\ view = "thread"
    /\ \E k \in 1..MaxSends : sendOps[k].pc = "done" /\ sendOps[k].error
    /\ toasts["Failed to send comment"] = 1
    /\ newComment = "text"
    /\ refresh = 0

\* A handler's invocation k leaves "idle" in this step.
Submits(ops, k) == ops[k].pc = "idle" /\ ops'[k].pc # "idle"

\* C14: a submission of the signup, change-password or reset-password form
\* whose password and confirmation differ, or whose password has fewer than 6
\* characters, returns at once: no rpc, no signUp, no updateUser is issued, the
\* form data and isLoading are unchanged, and a toast is emitted.
C14_ValidationFirst ==
    [][(formData.password # formData.confirmPassword \/ Len(formData.password) < 6) =>
        /\ \A k \in 1..MaxSignups :
              Submits(signupOps, k) =>
                  /\ signupOps'[k].pc = "done"
                  /\ signupOps'[k].rpc = "none"
                  /\ ~signupOps'[k].signUpIssued
                  /\ signupOps'[k].toast \in {"Passwords don't match", "Password too short"}
                  /\ formData' = formData /\ isLoading' = isLoading
                  /\ auth_users' = auth_users
        /\ \A k \in 1..MaxSubmits :
              Submits(pwOps, k) =>
                  /\ pwOps'[k].pc = "done"
                  /\ ~pwOps'[k].updateUserIssued
                  /\ pwOps'[k].toast \in {"Passwords don't match", "Password too short"}
                  /\ formData' = formData /\ isLoading' = isLoading
      ]_vars

\* The change-password form has rejected a matching password of 5 characters.
C14_Witness ==
    /\ page = "change"
    /\ \E k \in 1..MaxSubmits : pwOps[k].pc = "done" /\ pwOps[k].toast = "Password too short"
    /\ Len(formData.password) = 5
    /\ formData.password = formData.confirmPassword
    /\ ~isLoading

\* C17: signup issues auth.signUp only in the step in which the allowlist
\* check of its own email returns true; when the check returns an error the
\* signup throws the "unable to verify" error and issues no auth.signUp.
C17_SignupOrder ==
    [][\A k \in 1..MaxSignups :
        signupOps'[k].pc # "idle" =>
            /\ signupOps'[k].signUpIssued => signupOps'[k].rpc = "true"
            /\ signupOps'[k].pc = "signUp" => signupOps'[k].signUpIssued
            /\ (signupOps'[k].signUpIssued /\ signupOps[k].pc # "idle"
                /\ ~signupOps[k].signUpIssued) =>
                  /\ signupOps[k].pc = "rpc"
                  /\ signupOps'[k].email = signupOps[k].email
                  /\ is_email_allowed(signupOps[k].email)
            /\ signupOps'[k].rpc = "error" =>
                  /\ signupOps'[k].pc = "done"
                  /\ signupOps'[k].toast = UnableToVerify
                  /\ ~signupOps'[k].signUpIssued
                  /\ ~signupOps'[k].created
            /\ signupOps'[k].created => signupOps'[k].signUpIssued
      ]_vars

\* One signup ended on a failed check, another has created its identity.
C17_Witness ==
    \E k, j \in 1..MaxSignups :
        /\ signupOps[k].pc = "done" /\ signupOps[k].rpc = "error"
        /\ signupOps[j].pc = "done" /\ signupOps[j].created

\* The tables after each write the session uid can send: every insert,
\* update and delete of tweets, likes and comments, with any user_id and on
\* any row.
WritesOf(uid) ==
    LET Db(tw, lk, cm) == [tweets |-> tw, likes |-> lk, comments |-> cm]
    IN {Db(DbTweetsInsert(uid, u).tweets, tbl_likes, tbl_comments) :
            u \in {v \in Users : nextTweetId <= MaxTweets}}
       \cup {Db(DbTweetsUpdate(uid, id, c), tbl_likes, tbl_comments) :
            id \in TweetIds, c \in Contents}
       \cup {DbTweetsDelete(uid, id) : id \in TweetIds}
       \cup {Db(DbLikesInsert(uid, p[1], p[2]).tweets, DbLikesInsert(uid, p[1], p[2]).likes,
                tbl_comments) : p \in Users \X TweetIds}
       \cup {Db(DbLikesDelete(uid, p[1], p[2]).tweets, DbLikesDelete(uid, p[1], p[2]).likes,
                tbl_comments) : p \in Users \X TweetIds}
       \cup {Db(DbCommentsInsert(uid, p[1], p[2]).tweets, tbl_likes,
                DbCommentsInsert(uid, p[1], p[2]).comments) : p \in Users \X TweetIds}
       \cup {Db(tbl_tweets, tbl_likes, DbCommentsUpdate(uid, id, c)) :
            id \in 1..MaxComments, c \in Contents}
       \cup {Db(DbCommentsDelete(uid, id).tweets, tbl_likes, DbCommentsDelete(uid, id).comments) :
            id \in 1..MaxComments}

\* The owners of the rows a write created, changed or removed: r is the
\* tables after it.  With cascaded = FALSE the likes and comments that went
\* with their deleted tweet are left out.
OwnersTouched(r, cascaded) ==
    LET gone(tweet_id) == tbl_tweets[tweet_id] # NoRow /\ r.tweets[tweet_id] = NoRow
        counted(tweet_id) == cascaded \/ ~gone(tweet_id)
    IN {tbl_tweets[id].user_id :
            id \in {i \in TweetIds : tbl_tweets[i] # NoRow /\ r.tweets[i] # tbl_tweets[i]}}
       \cup {r.tweets[id].user_id :
            id \in {i \in TweetIds : r.tweets[i] # NoRow /\ r.tweets[i] # tbl_tweets[i]}}
       \cup {p[1] : p \in {q \in Users \X TweetIds :
                                r.likes[q] # tbl_likes[q] /\ counted(q[2])}}
       \cup {c.user_id : c \in {d \in (tbl_comments \ r.comments) \cup (r.comments \ tbl_comments) :
                                    counted(d.tweet_id)}}

WritesInFlight ==
    [likes |-> [m \in LikeSlots |->
                    IF likeOps[m].pc = "await" THEN likeOps[m].write ELSE NoRow],
     sends |-> [k \in 1..MaxSends |->
                    IF sendOps[k].pc = "await" THEN sendOps[k].tweet_id ELSE 0]]

\* C16 as stated: teardown of a view.  A step that tears the feed or the
\* thread down (the page is left, or the user dependency changes) removes
\* the channel with everything sent to it and leaves the database and the
\* writes in flight as they are; and a handler of the removed subscription
\* that was still awaiting changes nothing of the view state when it ends.
C16_Teardown ==
    [][/\ EffectRerun \/ Unmount =>
            /\ ~subscribed' /\ channel' = <<>>
            /\ WritesInFlight' = WritesInFlight
            /\ UNCHANGED dbVars
       /\ \A id \in TweetIds :
            Old(inserts[id]) /\ inserts'[id] # inserts[id] /\ ~Unmount
                => UNCHANGED <<tweets, tweet, comments>>
       /\ \A id \in CommentIds :
            Old(cmtOps[id]) /\ cmtOps'[id] # cmtOps[id] /\ ~Unmount
                => UNCHANGED <<tweets, tweet, comments>>
      ]_vars

\* Number of rows of public.profiles with the given user_id.
ProfileRowsOf(rows, user_id) == Cardinality({r \in rows : r.user_id = user_id})

C24_Unguarded ==
    (nLike < budget.likes /\ InFlight < MaxInFlight) =>
        /\ view = "feed" => \A i \in 1..Len(tweets) : ENABLED HandleLike(i)
        /\ (view = "thread" /\ tweet # NoTweet) => ENABLED HandleLikeThread

\* Two toggles of the same post by the same user await their writes.
C24_Witness ==
    \E m \in LikeSlots, n \in LikeSlots :
        /\ m # n
        /\ likeOps[m].pc = "await" /\ likeOps[n].pc = "await"
        /\ ~Gone(likeOps[m]) /\ ~Gone(likeOps[n])
        /\ likeOps[m].tweetId = likeOps[n].tweetId
        /\ likeOps[m].write.user_id = likeOps[n].write.user_id
        /\ view = "feed"

\* No toggle of post p is in flight and no UPDATE notification of p waits to
\* be merged.
Quiet(p) ==
    /\ \A m \in LikeSlots :
          likeOps[m].pc \in {"await", "resp"} => likeOps[m].tweetId # p
    /\ \A j \in 1..Len(channel) :
          ~(channel[j].event = "UPDATE" /\ channel[j].row.id = p)

\* C22: for a post shown in the feed, once every toggle of it in flight has
\* resolved and every UPDATE notification sent for it has been merged, the
\* local likes_count equals the likes_count of the post's row.
C22_Corrected ==
    (view = "feed" /\ subscribed /\ fetch.pc = "done") =>
        \A i \in 1..Len(tweets) :
            (tbl_tweets[tweets[i].id] # NoRow /\ Quiet(tweets[i].id)) =>
                tweets[i].likes_count = tbl_tweets[tweets[i].id].likes_count

\* C23: in the thread view, when the INSERT handler of a comment finishes
\* after the UPDATE notification of the same statement has been merged (the
\* commenter owns the post, so the trigger's update was sent; no UPDATE waits
\* in the channel; the local comments_count is the row's), the local
\* comments_count is still the value that notification carried.
C23_Authoritative ==
    [][\A id \in CommentIds :
        (/\ view = "thread" /\ subscribed /\ ~Unmount
         /\ cmtOps[id].pc = "profile" /\ cmtOps'[id].pc = "done"
         /\ ~Old(cmtOps[id])
         /\ tweet # NoTweet
         /\ tbl_tweets[tweetId] # NoRow
         /\ cmtOps[id].newCommentData.user_id = tbl_tweets[tweetId].user_id
         /\ \A j \in 1..Len(channel) : channel[j].event # "UPDATE"
         /\ tweet.comments_count = tbl_tweets[tweetId].comments_count)
            => tweet'.comments_count = tbl_tweets[tweetId].comments_count
      ]_vars

\* C25: no post id occurs more than once in the feed's list.
C25_NoDuplicates ==
    view = "feed" => \A id \in TweetIds : Count(tweets, id) <= 1

\* next is prev without the items of id p, the others unmodified and in order.
Removed(prev, next, p) ==
    LET kept == {i \in 1..Len(prev) : prev[i].id # p}
    IN /\ Len(next) = Cardinality(kept)
       /\ \A i \in kept : next[Cardinality({j \in kept : j <= i})] = prev[i]

\* C30: handleDeleteTweet leaves the feed as it is until its delete (of the
\* row with the post's id and the user's id) has answered; after an error the
\* feed is unchanged and "Failed to delete tweet" is shown; after a success
\* the post is removed and the others stay; and the removal by the handler
\* and the merge of the DELETE notification of the same id, whichever comes
\* second, leaves the feed the first one produced.
C30_Delete ==
    [][/\ \A k \in 1..MaxDels :
            /\ (delOps[k].pc = "idle" /\ delOps'[k].pc = "await") =>
                    /\ tweets' = tweets
                    /\ UNCHANGED dbVars
            /\ (delOps[k].pc = "await" /\ delOps'[k].pc = "resp") =>
                    /\ tweets' = tweets
                    /\ \A id \in TweetIds : tbl_tweets'[id] # tbl_tweets[id] =>
                          /\ id = delOps[k].tweetId
                          /\ tbl_tweets[id].user_id = Me
                          /\ ~delOps'[k].error
            /\ (delOps[k].pc = "resp" /\ delOps'[k].pc = "done" /\ ~Gone(delOps[k])) =>
                    IF delOps[k].error
                    THEN /\ tweets' = tweets
                         /\ toasts'["Failed to delete tweet"] = toasts["Failed to delete tweet"] + 1
                    ELSE /\ Removed(tweets, tweets', delOps[k].tweetId)
                         /\ Count(tweets, delOps[k].tweetId) = 0 => tweets' = tweets
       /\ (/\ view = "feed" /\ channel # <<>> /\ Head(channel).event = "DELETE"
           /\ channel' = Tail(channel) /\ ~(EffectRerun \/ Unmount)) =>
                /\ Removed(tweets, tweets', Head(channel).row.id)
                /\ Count(tweets, Head(channel).row.id) = 0 => tweets' = tweets
      ]_vars

\* The handler has removed post 1 from the feed, another post stays, and the
\* DELETE notification of post 1 is the next to be merged.
C30_Witness ==
    /\ view = "feed"
    /\ \E k \in 1..MaxDels : delOps[k] = [pc |-> "done", error |-> FALSE]
    /\ toasts["Tweet deleted successfully"] = 1
    /\ channel # <<>>
    /\ Head(channel).event = "DELETE"
    /\ Head(channel).row.id = 1
    /\ Count(tweets, 1) = 0
    /\ Len(tweets) = 1

\* C29: when the upload of handleImageUpload fails, the invocation ends with
\* the "Upload failed" toast, no profiles row has changed, and the object the
\* user's avatar_url refers to is in the bucket.
C29_Recoverable ==
    [][\A k \in 1..MaxUploads :
        (/\ uploadOps[k].pc = "upload"
         /\ uploadOps'[k] = [pc |-> "done", toast |-> "Upload failed"]) =>
            /\ tbl_profiles' = tbl_profiles
            /\ \A r \in tbl_profiles' :
                  (r.user_id = uploadOps[k].uid /\ r.avatar_url # 0) =>
                      \E o \in storage_objects' : o.id = r.avatar_url
      ]_vars

\* C26: whenever loading is false and the provider holds a session with a
\* user, the context's user is non-null, so no guard sends a signed-in user to
\* /login.
C26_NotBounced ==
    /\ (~loading /\ session # "") => user # ""
    /\ (session # "" /\ pathname \in Paths \ {"/login"}) =>
           Routes(loading, user, userData, pathname, lastRoute) # "/login"

\* C27: once the listener has handled an event without a session, the
\* context's user stays null until the listener is called with a session.
C27_Final ==
    [][(lastEvent = "null" /\ lastEvent' = "null") => user' = ""]_vars

AllSet(d) == d.program # "undefined" /\ d.section # "undefined" /\ d.batch # "undefined"

\* C28: on a protected path the guard renders its children exactly when
\* loading is false, the user is non-null and either program, section and
\* batch are all set or the path is /profile-setup; while loading it renders
\* the spinner, without a user it redirects to /login, and with an incomplete
\* profile elsewhere it redirects to /profile-setup; the navigation that
\* follows goes where the guard says.
C28_Guard ==
    [][LET r == ProtectedRoute(loading, user, userData, pathname)
       IN pathname \in {"/dashboard", "/profile-setup", "/admin"} =>
            /\ r = "children" <=>
                   (~loading /\ user # "" /\ (AllSet(userData) \/ pathname = "/profile-setup"))
            /\ loading => r = "spinner"
            /\ (~loading /\ user = "") => r = "/login"
            /\ (~loading /\ user # "" /\ ~AllSet(userData) /\ pathname # "/profile-setup") =>
                   r = "/profile-setup"
            /\ Navigate =>
                   pathname' = (IF user = "" THEN "/login" ELSE "/profile-setup")
      ]_vars

\* A user whose profile has a program but no batch is on the dashboard's path.
C28_Witness ==
    /\ ~loading
    /\ user # ""
    /\ userData.program # "undefined"
    /\ userData.batch = "undefined"
    /\ pathname = "/dashboard"

\* C21: while there is no user or the user is not an admin, the admin page
\* returns the access-denied render, and no step that stays on the path
\* changes the page's allowlist or its input or emits one of its toasts.
C21_AdminOnly ==
    [][(user = "" \/ ~userData.isAdmin) =>
          /\ AdminPage(user, userData) = "denied"
          /\ pathname' = pathname =>
                 /\ adminPage' = adminPage
                 /\ toasts' = toasts
      ]_vars

\* A user who is no longer an admin is on the admin page, whose allowlist
\* was edited before.
C21_Witness ==
    /\ pathname = "/admin"
    /\ ProtectedRoute(loading, user, userData, pathname) = "children"
    /\ user # ""
    /\ ~userData.isAdmin
    /\ adminPage.allowlist # INITIAL_ALLOWLIST
====
